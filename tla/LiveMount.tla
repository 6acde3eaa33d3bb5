------------------------------ MODULE LiveMount ------------------------------
(***************************************************************************)
(* One live mount between a directory on disk and the virtual file system  *)
(* of a session (src/vfs/live-mount.ts, createLiveMount), with the parts   *)
(* of src/vfs/vfs.ts it wraps.                                             *)
(*                                                                         *)
(* Three parties act: the agent's code calls the VFS, the user changes the *)
(* disk, and the holder of the handle flushes, discards, switches policy   *)
(* or unmounts.  Every VFS call and every handle call is synchronous, so   *)
(* it is one step; the initial load suspends between reading a file and    *)
(* storing it and between files, and a change on disk reaches the VFS only *)
(* when the watcher's callback runs, later and after any number of other   *)
(* steps.                                                                  *)
(*                                                                         *)
(* Abstracted: content (a value of Content; what an append leaves in a     *)
(* file is some value of Content), metadata, fileCount, the add/modify     *)
(* label of a diff.  A path keeps its kind: those of Folders are only ever *)
(* directories, the others only files.  The watcher reports every changed  *)
(* path at least once; reports of one path that have not been handled yet  *)
(* count as one, and come in any order.  The disk may refuse: a read, the  *)
(* removal of a path or of something below it, a write, which leaves       *)
(* nothing, the directories on the way or a file cut off.                  *)
(*                                                                         *)
(* isUnderMount() looks at a path as the agent spells it, the VFS          *)
(* normalises it: `workspace/x` or `/a/../workspace/x` is a file of the    *)
(* mount that the wrapped methods do not take for one.  A spelling that    *)
(* begins with the mount point is taken to be normal.                      *)
(***************************************************************************)
EXTENDS VfsTree, FiniteSets

CONSTANTS
    Folders,   \* those that are directories when they exist
    Ignored,   \* those an ignore pattern matches
    Outside,   \* those that lie outside the mount point, in the VFS only
    MaxOps     \* bound: calls of the agent, the user and the handle's holder

\* What lies on the way to a path is a directory; nothing inside the mount point
\* lies below something outside.
ASSUME KindAssumption == /\ Folders \subseteq Path
                         /\ Ignored \subseteq Path
                         /\ Outside \subseteq Path
                         /\ \A p \in Path : Above(p) \subseteq Folders
                         /\ \A p \in Outside : Below(p) \subseteq Outside
ASSUME MaxOpsAssumption == MaxOps \in Nat

VARIABLES
    vfs,        \* the nodes of the VFS
    disk,       \* the nodes on disk
    phase,      \* createLiveMount: "loading", "mounted" or "failed"
    unread,     \* the initial load: paths listed and not yet read
    read,       \* the initial load: <<p, x>> when p was read and is not stored
    active,     \* the active flag
    policy,     \* "auto-flush" or "draft"
    pending,    \* pendingDiffs, in the Map's order
    events,     \* changes on disk the watcher has yet to report
    fromDisk,   \* the syncingFromDisk flag between two turns
    toDisk,     \* the syncingToDisk flag between two turns
    blind,      \* (history) files that differ since a step the mount did not see
    ops         \* (bound) calls so far

mountVars == <<phase, unread, read, active, policy>>
vars == <<vfs, disk, mountVars, pending, events, fromDisk, toDisk, blind, ops>>

Files == Path \ Folders
SameKind(p, q) == p \in Folders <=> q \in Folders
Diff == [path: Path, action: {"put", "delete"}, content: Content \cup {None}]

TypeOK ==
    /\ vfs \in Tree
    /\ disk \in Tree
    /\ phase \in {"loading", "mounted", "failed"}
    /\ unread \subseteq Path
    /\ read \subseteq Files \X Content
    /\ active \in BOOLEAN
    /\ policy \in {"auto-flush", "draft"}
    /\ pending \in Seq(Diff)
    /\ events \subseteq Path
    /\ fromDisk \in BOOLEAN
    /\ toDisk \in BOOLEAN
    /\ blind \subseteq Files
    /\ ops \in 0 .. MaxOps

----------------------------------------------------------------------------
(* The pending diffs.                                                      *)

\* A path that is recorded again keeps the diff it had.
BugRecordKeepsFirst(list, d) ==
    IF \E i \in DOMAIN list : list[i].path = d.path THEN list ELSE Append(list, d)

\* Map.set: a key keeps its place in the order when it is set again.
Record(list, d) ==
    IF \E i \in DOMAIN list : list[i].path = d.path
    THEN [i \in DOMAIN list |-> IF list[i].path = d.path THEN d ELSE list[i]]
    ELSE Append(list, d)

PutDiff(p, x) == [path |-> p, action |-> "put", content |-> x]
DeleteDiff(p) == [path |-> p, action |-> "delete", content |-> None]

\* The diffs that leave their mark on q when they are applied in order.
Marks(d, q) ==
    \/ d.path = q
    \/ d.action = "delete" /\ d.path \in Above(q)
    \/ d.action = "put" /\ q \in Above(d.path)

\* What the removals of the first k diffs may fail to remove, as <<diff, path>>: what
\* is left of a directory is in it, so it is left too.
Refusals(k) ==
    {kept \in SUBSET {e \in (1 .. k) \X Path : pending[e[1]].action = "delete" /\ Marks(pending[e[1]], e[2])} :
        \A e \in kept : \A q \in Above(e[2]) : Marks(pending[e[1]], q) => <<e[1], q>> \in kept}
Refused(kept) == {e[2] : e \in kept}

\* The disk after the first k diffs: at each path the last mark stands.
Flushed(k, kept) ==
    [q \in Path |->
        LET marks == {i \in 1 .. k : Marks(pending[i], q) /\ <<i, q>> \notin kept} IN
        IF marks = {} THEN disk[q]
        ELSE LET d == pending[CHOOSE i \in marks : \A j \in marks : j <= i]
             IN IF d.action = "delete" THEN None
                ELSE IF d.path = q THEN d.content ELSE Folder]

\* What flushing them makes the watcher report: a write even if nothing changes.
FlushReports(k, kept) ==
    Changed(disk, Flushed(k, kept)) \cup {pending[i].path : i \in {j \in 1 .. k : pending[j].action = "put"}}

\* The VFS after the first k diffs are taken back.  A deleted path is read
\* from disk again if it is there, and left as it is otherwise; a written one
\* is read from disk, or removed.
Discarded(k) ==
    [q \in Path |->
        IF \E i \in 1 .. k : pending[i].path = q
        THEN IF disk[q] # None THEN disk[q]
             ELSE IF \E i \in 1 .. k : pending[i] = DeleteDiff(q) THEN vfs[q] ELSE None
        ELSE IF vfs[q] = None /\ \E i \in 1 .. k : q \in Above(pending[i].path)
                                                    /\ disk[pending[i].path] # None
        THEN Folder ELSE vfs[q]]

----------------------------------------------------------------------------

Init ==
    /\ vfs = [p \in Path |-> None]
    /\ disk \in {t \in Tree : \A p \in Path :
                    /\ t[p] \in IF p \in Folders THEN {Folder, None} ELSE Content \cup {None}
                    /\ p \in Outside => t[p] = None
                    /\ t[p] # None => \A q \in Above(p) : t[q] = Folder}
    /\ phase = "loading"
    /\ \/ /\ unread = {p \in Path \ Ignored : disk[p] # None /\ Above(p) = {}}
          /\ blind = {p \in Files : disk[p] # None /\ Above(p) \cap Ignored # {}}
       \/ /\ unread = {}       \* initialLoad: false
          /\ blind = {p \in Files : disk[p] # None}
    /\ read = {}
    /\ active = TRUE
    /\ policy \in {"auto-flush", "draft"}
    /\ pending = <<>>
    /\ events = {}
    /\ fromDisk = FALSE
    /\ toDisk = FALSE
    /\ ops = 0

Watching == phase = "mounted" /\ active

\* The disk becomes t, and the watcher will report the paths of reports.
DiskBecomes(t, reports) ==
    /\ disk' = t
    /\ events' = IF Watching THEN events \cup reports ELSE events

Call == ops < MaxOps /\ ops' = ops + 1

\* What rmSync may leave when it fails at p, or at something below it: p, and what is
\* left of a directory is in it.
Remains(t, p) ==
    {[q \in Path |-> IF q \in Below(p) \ kept THEN None ELSE t[q]] :
        kept \in {ks \in SUBSET Below(p) : \A q \in ks : Above(q) \cap Below(p) \subseteq ks}}

\* What a write of p that throws may leave: nothing, directories on the way, or p cut off.
Torn(t, p) == {t} \cup {Put(t, q, Folder) : q \in Above(p)} \cup {Put(t, p, x) : x \in Content}

\* (history) unseen: paths this step changed without the mount taking notice.
\* A file stays in blind for as long as its two sides differ.
Overlooked(unseen) ==
    blind' = {p \in Files : (p \in blind \/ p \in unseen) /\ vfs'[p] # disk'[p]}

----------------------------------------------------------------------------
(* The initial load, which nothing synchronises with the other parties.    *)

\* The loop takes one path at a time (in the order of the listings, here any).
Reading(p) ==
    /\ phase = "loading"
    /\ read = {}
    /\ p \in unread
    /\ UNCHANGED <<disk, active, policy, pending, events, fromDisk, toDisk, ops>>

\* A directory: it is made in the VFS and its listing is awaited.
LoadFolder(p) ==
    /\ Reading(p)
    /\ disk[p] = Folder
    /\ vfs' = Put(vfs, p, Folder)
    /\ unread' = (unread \ {p}) \cup
                 {q \in Below(p) \ Ignored : disk[q] # None /\ Len(q) = Len(p) + 1}
    /\ UNCHANGED <<phase, read, blind>>

LoadRead(p) ==
    /\ Reading(p)
    /\ disk[p] \in Content
    /\ read' = {<<p, disk[p]>>}
    /\ unread' = unread \ {p}
    /\ UNCHANGED <<vfs, phase, blind>>

\* What was read is stored over what the agent has written meanwhile, and
\* whatever the file has become.
LoadStore ==
    \E r \in read :
        /\ vfs' = Put(vfs, r[1], r[2])
        /\ read' = {}
        /\ UNCHANGED <<disk, phase, unread, active, policy, pending, events, fromDisk, toDisk, ops>>
        /\ Overlooked({r[1]})

\* What was listed is gone, before its stat or between that and its readdir or
\* readFile: the call throws, a directory made in the VFS stays, and no mount
\* comes to be.
LoadFails(p) ==
    /\ Reading(p)
    /\ disk[p] = None
    /\ vfs' \in {vfs} \cup {Put(vfs, q, Folder) : q \in {p} \cap Folders}
    /\ phase' = "failed"
    /\ unread' = {}
    /\ UNCHANGED <<read, blind>>

\* The watcher is started and the VFS methods are replaced.
LoadEnds ==
    /\ phase = "loading"
    /\ unread = {}
    /\ read = {}
    /\ phase' = "mounted"
    /\ UNCHANGED <<vfs, disk, unread, read, active, policy, pending, events, fromDisk, toDisk, blind, ops>>

----------------------------------------------------------------------------
(* The user, on disk (external).                                           *)

UserChanges(t, reports) ==
    /\ Call
    /\ DiskBecomes(t, reports)
    /\ UNCHANGED <<vfs, mountVars, pending, fromDisk, toDisk>>
    /\ Overlooked(IF Watching THEN {} ELSE reports)

UserSaves(p, x) ==
    /\ p \in Files \ Outside
    /\ UserChanges(Put(disk, p, x), Changed(disk, Put(disk, p, x)) \cup {p})

UserDeletes(p) ==
    /\ disk[p] # None
    /\ UserChanges(Prune(disk, p), Changed(disk, Prune(disk, p)))

----------------------------------------------------------------------------
(* The watcher's callback.                                                 *)

\* The callback writes through the wrapped methods with the flag left down.
BugDeliverEchoes(p) ==
    /\ p \in events
    /\ vfs' = IF disk[p] = None THEN Removed(vfs, p, TRUE) ELSE Put(vfs, p, disk[p])
    /\ events' = IF policy = "auto-flush" /\ disk[p] # None THEN events ELSE events \ {p}
    /\ fromDisk' = FALSE
    /\ UNCHANGED <<disk, mountVars, pending, toDisk, ops>>
    /\ Overlooked({})

\* A path the agent has in the VFS already is not copied again.
BugDeliverSkipsTouched(p) ==
    /\ p \in events
    /\ events' = events \ {p}
    /\ IF p \in Ignored \/ toDisk \/ vfs[p] # None
       THEN UNCHANGED <<vfs, fromDisk>>
       ELSE /\ vfs' = IF disk[p] = None THEN Removed(vfs, p, TRUE) ELSE Put(vfs, p, disk[p])
            /\ fromDisk' = FALSE
    /\ UNCHANGED <<disk, mountVars, pending, toDisk, ops>>
    /\ Overlooked(IF toDisk THEN {p} ELSE {})

\* What the disk holds now is copied to the VFS, whatever the agent or a
\* pending diff has there; while toDisk is up the report is dropped.
Deliver(p) ==
    /\ p \in events
    /\ events' = events \ {p}
    /\ IF p \in Ignored \/ toDisk
       THEN UNCHANGED <<vfs, fromDisk>>
       ELSE /\ vfs' = IF disk[p] = None THEN Removed(vfs, p, TRUE) ELSE Put(vfs, p, disk[p])
            /\ fromDisk' = FALSE
    /\ UNCHANGED <<disk, mountVars, pending, toDisk, ops>>
    /\ Overlooked(IF toDisk THEN {p} ELSE {})

\* The file cannot be read: the callback's catch says nothing, and the report is gone.
DeliverFails(p) ==
    /\ p \in events
    /\ p \notin Ignored /\ ~ toDisk /\ disk[p] # None
    /\ events' = events \ {p}
    /\ fromDisk' = FALSE
    /\ UNCHANGED <<vfs, disk, mountVars, pending, toDisk, ops>>
    /\ Overlooked({p})

Callback(p) == Deliver(p) \/ DeliverFails(p)

----------------------------------------------------------------------------
(* The agent, on the VFS.                                                  *)

\* Whether the wrapped methods do more than the originals.
Intercepting == Watching /\ ~ fromDisk

AgentChanges(t) ==
    /\ Call
    /\ vfs' = t
    /\ UNCHANGED mountVars

\* The VFS changes and nothing else happens.
Unnoticed(t) ==
    /\ AgentChanges(t)
    /\ UNCHANGED <<disk, pending, events, fromDisk, toDisk>>
    /\ Overlooked(Changed(vfs, t))

\* The path is not spelled as one of the mount's.
CallAround(p) ==
    /\ Intercepting
    /\ p \notin Outside \cup Ignored
    /\ \/ p \in Files /\ \E x \in Content : Unnoticed(Put(vfs, p, x))
       \/ \E recursive \in BOOLEAN : Unnoticed(Removed(vfs, p, recursive))

\* writeFile and append: flushed at once or recorded.
Write(p, x) ==
    /\ p \in Files
    /\ LET t == Put(vfs, p, x)
           u == Put(disk, p, x)
       IN IF ~ Intercepting \/ p \in Outside \cup Ignored THEN Unnoticed(t)
          ELSE /\ AgentChanges(t)
               /\ IF policy = "auto-flush"
                  THEN DiskBecomes(u, Changed(disk, u) \cup {p}) /\ UNCHANGED pending
                  ELSE pending' = Record(pending, PutDiff(p, x)) /\ UNCHANGED <<disk, events>>
               /\ UNCHANGED <<fromDisk, toDisk>>
               /\ Overlooked({})

\* flushSingleWrite throws: the agent's call does, with the VFS changed.
WriteNotFlushed(p, x) ==
    /\ p \in Files \ (Outside \cup Ignored)
    /\ Intercepting
    /\ policy = "auto-flush"
    /\ AgentChanges(Put(vfs, p, x))
    /\ \E u \in Torn(disk, p) : DiskBecomes(u, Changed(disk, u))
    /\ UNCHANGED <<pending, fromDisk, toDisk>>
    /\ Overlooked({p})

\* rm: the disk loses what is there, recursively, whether or not the VFS had
\* the path and whether or not the call was recursive.
Remove(p, recursive) ==
    LET t == Removed(vfs, p, recursive)
        u == Prune(disk, p)
    IN IF ~ Intercepting \/ p \in Outside \cup Ignored THEN Unnoticed(t)
       ELSE /\ AgentChanges(t)
            /\ IF policy = "auto-flush"
               THEN DiskBecomes(u, Changed(disk, u)) /\ toDisk' = FALSE /\ UNCHANGED pending
               ELSE /\ pending' = Record(pending, DeleteDiff(p))
                    /\ UNCHANGED <<disk, events, toDisk>>
            /\ UNCHANGED fromDisk
            /\ Overlooked({})

\* rmSync fails, which is caught and not told.
RemoveFails(p, recursive) ==
    /\ Intercepting
    /\ p \notin Outside \cup Ignored
    /\ policy = "auto-flush" /\ disk[p] # None
    /\ AgentChanges(Removed(vfs, p, recursive))
    /\ \E u \in Remains(disk, p) : DiskBecomes(u, Changed(disk, u))
    /\ toDisk' = FALSE
    /\ UNCHANGED <<pending, fromDisk>>
    /\ Overlooked({p} \cup Below(p))

Movable(from, to) ==
    /\ vfs[from] # None
    /\ SameKind(from, to)
    /\ to \notin Below(from) /\ from \notin Below(to)
    /\ \A q \in Below(from) : vfs[q] # None =>
          Rebase(q, from, to) \in Path /\ SameKind(q, Rebase(q, from, to))

\* A move of a directory records its content, which is none, as a file's.
BugMoveRecordsFolder(from, to, seen, fails) ==
    /\ vfs[from] # None
    /\ SameKind(from, to)
    /\ policy = "draft" /\ Intercepting
    /\ AgentChanges(Moved(vfs, from, to))
    /\ pending' = Record(Record(pending, DeleteDiff(from)), PutDiff(to, vfs[from]))
    /\ UNCHANGED <<disk, events, fromDisk, toDisk>>
    /\ Overlooked({})

\* mv, seen being the ends that are spelled as the mount's, and fails what the disk
\* refuses: no ignore pattern is consulted; first the source goes, then the target is
\* read as a file, which throws for a directory and for a path moved onto itself, and
\* leaves the target unflushed and unrecorded.
Moves(from, to, seen, fails) ==
    /\ Movable(from, to)
    /\ LET t      == Moved(vfs, from, to)
           out    == from \in seen
           in     == to \in seen /\ t[to] \in Content
           gone   == IF ~ out THEN {disk}
                     ELSE IF "removal" \in fails THEN Remains(disk, from) ELSE {Prune(disk, from)}
           listed == IF out THEN Record(pending, DeleteDiff(from)) ELSE pending
       IN IF ~ Intercepting THEN Unnoticed(t)
          ELSE /\ AgentChanges(t)
               /\ IF policy = "auto-flush"
                  THEN /\ \E g \in gone :
                            \E u \in IF ~ in THEN {g} ELSE IF "write" \in fails THEN Torn(g, to) ELSE {Put(g, to, t[to])} :
                               DiskBecomes(u, Changed(disk, g) \cup Changed(disk, u) \cup (IF in THEN {to} ELSE {}))
                       /\ toDisk' = (toDisk /\ ~ out)
                       /\ UNCHANGED pending
                  ELSE /\ pending' = IF in THEN Record(listed, PutDiff(to, t[to])) ELSE listed
                       /\ UNCHANGED <<disk, events, toDisk>>
               /\ UNCHANGED fromDisk
               /\ Overlooked(  (IF in /\ "write" \notin fails THEN {} ELSE {to} \cup Below(to))
                          \cup (IF out /\ "removal" \notin fails THEN {} ELSE {from} \cup Below(from)))

Move(from, to) == Moves(from, to, {from, to} \ Outside, {})

\* The disk refuses.
MoveFails(from, to) ==
    /\ Intercepting /\ policy = "auto-flush"
    /\ \E fails \in {{"removal"}, {"write"}, {"removal", "write"}} : Moves(from, to, {from, to} \ Outside, fails)

\* An end is spelled another way.
MoveAround(from, to) ==
    /\ Intercepting
    /\ vfs[from] # None
    /\ \E seen \in SUBSET ({from, to} \ Outside) : seen # {from, to} \ Outside /\ Moves(from, to, seen, {})

\* cp is not wrapped.
Copy(from, to) ==
    /\ vfs[from] \in Content
    /\ to \in Files
    /\ Unnoticed(Put(vfs, to, vfs[from]))

----------------------------------------------------------------------------
(* The holder of the handle.  None of these looks at active.               *)

\* flushPending(): every diff in the Map's order, the diffs cleared; that a removal
\* fails is caught and not told.
FlushPending ==
    /\ pending # <<>>
    /\ pending' = <<>>
    /\ toDisk' = FALSE
    /\ UNCHANGED vfs
    /\ \E kept \in Refusals(Len(pending)) : 
          /\ DiskBecomes(Flushed(Len(pending), kept), FlushReports(Len(pending), kept))
          /\ Overlooked(Refused(kept))

\* flush()
Flush ==
    /\ FlushPending
    /\ Call
    /\ UNCHANGED <<mountVars, fromDisk>>

\* The write of diff k throws, in flush() or in setPolicy(): the diffs before
\* it are on disk, all are still pending, and toDisk stays up.
FlushFails(k) ==
    /\ pending[k].action = "put"
    /\ Call
    /\ \E kept \in Refusals(k - 1) : \E u \in Torn(Flushed(k - 1, kept), pending[k].path) :
          DiskBecomes(u, FlushReports(k - 1, kept) \cup Changed(disk, u))
    /\ toDisk' = TRUE
    /\ UNCHANGED <<vfs, mountVars, pending, fromDisk>>
    /\ Overlooked({})

\* The diffs discard() throws at: a directory cannot be read as a file.
Unreadable(i) == pending[i].action = "delete" /\ disk[pending[i].path] = Folder

Discard ==
    /\ pending # <<>>
    /\ \A i \in DOMAIN pending : ~ Unreadable(i)
    /\ Call
    /\ vfs' = Discarded(Len(pending))
    /\ pending' = <<>>
    /\ fromDisk' = FALSE
    /\ UNCHANGED <<disk, mountVars, events, toDisk>>
    /\ Overlooked({})

\* The diffs before the first such are taken back, all are still pending, and
\* fromDisk stays up.
DiscardFails(k) ==
    /\ Unreadable(k)
    /\ \A i \in 1 .. k - 1 : ~ Unreadable(i)
    /\ Call
    /\ vfs' = Discarded(k - 1)
    /\ fromDisk' = TRUE
    /\ UNCHANGED <<disk, mountVars, pending, events, toDisk>>
    /\ Overlooked({})

\* The diffs are kept for a later flush.
BugSetPolicyKeeps(new) ==
    /\ new # policy
    /\ Call
    /\ policy' = new
    /\ UNCHANGED <<vfs, disk, pending, events, toDisk, phase, unread, read, active, fromDisk>>
    /\ Overlooked({})

\* setPolicy(): leaving draft flushes first.
SetPolicy(new) ==
    /\ phase = "mounted"
    /\ new # policy
    /\ Call
    /\ policy' = new
    /\ IF new = "auto-flush" /\ pending # <<>>
       THEN FlushPending
       ELSE UNCHANGED <<vfs, disk, pending, events, toDisk>> /\ Overlooked({})
    /\ UNCHANGED <<phase, unread, read, active, fromDisk>>

\* unmount(): the watcher is closed, with what it has not reported, and the
\* methods are restored; the diffs stay, and can still be flushed.
Unmount ==
    /\ Watching
    /\ Call
    /\ active' = FALSE
    /\ events' = {}
    /\ UNCHANGED <<vfs, disk, phase, unread, read, policy, pending, fromDisk, toDisk, blind>>

----------------------------------------------------------------------------

Load == LoadEnds \/ LoadStore \/ \E p \in Path : LoadFolder(p) \/ LoadRead(p) \/ LoadFails(p)

User == \E p \in Path : UserDeletes(p) \/ \E x \in Content : UserSaves(p, x)

Agent ==
    \E p \in Path :
        \/ \E x \in Content : Write(p, x) \/ WriteNotFlushed(p, x)
        \/ \E recursive \in BOOLEAN : Remove(p, recursive) \/ RemoveFails(p, recursive)
        \/ CallAround(p)
        \/ \E q \in Path : Move(p, q) \/ MoveFails(p, q) \/ MoveAround(p, q) \/ Copy(p, q)

Holder ==
    \/ Flush \/ Discard \/ Unmount
    \/ \E k \in DOMAIN pending : FlushFails(k) \/ DiscardFails(k)
    \/ \E new \in {"auto-flush", "draft"} : SetPolicy(new)

Next == Load \/ User \/ Agent \/ Holder \/ \E p \in Path : Callback(p)

\* The loop goes on with the load and runs the watcher's callbacks.
Fairness == WF_vars(Load) /\ \A p \in Path : WF_vars(Callback(p))

Spec == Init /\ [][Next]_vars /\ Fairness

----------------------------------------------------------------------------
(* What a mount promises.                                                  *)

Synced == Files \ (Ignored \cup Outside)

\* A flush would give p on disk what the VFS has there.
Told(p) == Flushed(Len(pending), {})[p] = vfs[p]

\* p is listed as written and a directory above it as deleted: of what came first the
\* list no longer tells (the Map's order).
OrderLost(p) ==
    /\ \E i \in DOMAIN pending : pending[i].path = p /\ pending[i].action = "put"
    /\ \E i \in DOMAIN pending : pending[i].path \in Above(p) /\ pending[i].action = "delete"

\* While a mount is active, the two sides of a file agree unless something will tell: a
\* report on its way, or a list of diffs that says what the agent has there, the lost
\* order apart; or they differ since a step the mount did not see, or did not tell of:
\* during the load, by cp, by a path spelled another way, by a call that threw, while a
\* flag was stuck, when the disk refused a read or a removal (the catches of
\* live-mount.ts).  However else user, agent and review interleave, no file drifts
\* apart unnoticed.
DivergenceIsTracked ==
    Watching => \A p \in Synced :
        vfs[p] # disk[p] => p \in events \/ p \in blind \/ Told(p) \/ OrderLost(p)

\* Under auto-flush nothing waits for a review, whatever became of earlier
\* flushes (setPolicy(), live-mount.ts:489-497).
AutoFlushReviewsNothing == policy = "auto-flush" => pending = <<>>

\* The disk ends up as diff i says.
AppliedAsReviewed(i) ==
    LET d == pending[i] IN disk'[d.path] = IF d.action = "put" THEN d.content ELSE None

\* After a flush the disk has what the agent has, in every file but those the user has
\* changed since the agent did (told or not yet told), those whose order is lost, and
\* those that differ since a step the mount did not see or tell of, a removal that
\* failed in this flush included (flushPending(), live-mount.ts:406-428).
FlushBringsTogether ==
    [][Watching /\ Flush => \A p \in Synced :
          \/ disk'[p] = vfs[p]
          \/ vfs[p] = disk[p] \/ p \in events
          \/ OrderLost(p) \/ p \in blind']_vars

\* docs/guide.md:1264: "mount.flush();    // Apply all changes to disk".  What
\* the agent wrote last, and finds where it wrote it, is on disk after a flush.
FlushAppliesAll ==
    [][Flush => \A i \in DOMAIN pending :
          LET d == pending[i] IN
          (/\ d.action = "put"
           /\ vfs[d.path] = d.content
           /\ \A q \in Above(d.path) : vfs[q] = Folder)
              => AppliedAsReviewed(i)]_vars

\* docs/guide.md:1237: "Auto-flush: every VFS write hits disk immediately", mv
\* being one of the calls the mount wraps "to intercept writes under our mount
\* point" (live-mount.ts:265): what agreed with the disk does so after a move.
MovesReachDisk ==
    [][(Intercepting /\ policy = "auto-flush" /\ \A p \in Synced : vfs[p] = disk[p]) =>
          \A from, to \in Path : Move(from, to) =>
              \A p \in Synced : vfs'[p] # vfs[p] => disk'[p] = vfs'[p]]_vars

\* Synchronisation comes to rest: what the watcher copies to the VFS is not
\* copied back, so the reports a change on disk sets off run out (the two flags
\* "to avoid loops", live-mount.ts:210-213).
EchoesDieOut == <>[](events = {})

=============================================================================

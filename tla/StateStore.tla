----------------------------- MODULE StateStore -----------------------------
(***************************************************************************)
(* The state store (secrets/state.ts): values with a time to live, in      *)
(* memory, with snapshots.  Everything in memory is synchronous; save()    *)
(* and load() wait for a file while others go on.  Left out: denied calls, *)
(* which change nothing, and audit entries.                                *)
(***************************************************************************)
EXTENDS Clock, FiniteSets

CONSTANTS
  Key, Value,
  Saver,           \* calls of save(), all to one path
  MaxTtl, MaxKept  \* bounds: times to live; different snapshots taken

ASSUME StateAssumption ==
  /\ MaxTtl \in Nat /\ MaxKept \in Nat
  /\ None \notin [value : Value, updatedAt : Nat, ttl : Nat]
  /\ None \notin [value : Value, until : Nat \cup {Never}]
  /\ None \notin Value

VARIABLES
  entries,   \* the Map: the entry of each key, or None
  kept,      \* the snapshots taken so far, in memory or for a file
  file,      \* is there none, is it torn, or is the snapshot it holds whole
  saving,    \* per save(): how far it is, and the snapshot it writes
  loading,   \* what load() has read and not yet restored, at most one snapshot
  lastState  \* what get() last returned

inStoreVars == <<entries, kept, file, saving, loading, lastState>>
stateVars == <<inStoreVars, now>>

StateEntry == [value : Value, updatedAt : 0 .. MaxTime, ttl : 0 .. MaxTtl]
Data == [Key -> StateEntry \cup {None}]
NoEntries == [k \in Key |-> None]

StateInit ==
  /\ entries = NoEntries /\ kept = {} /\ file = [is |-> "none", data |-> NoEntries] /\ now = 0
  /\ saving = [s \in Saver |-> [is |-> "idle", data |-> NoEntries]] /\ loading = {} /\ lastState = None

\* A time to live of 0 is none.
EndsAt(e) == IF e.ttl = 0 THEN Never ELSE e.updatedAt + e.ttl
Present(e) == e # None /\ (e.ttl = 0 \/ now <= e.updatedAt + e.ttl)

Pruned(data) == [k \in Key |-> IF Present(data[k]) THEN data[k] ELSE None]
Purged == Pruned(entries)
Dropped(k) == IF Present(entries[k]) THEN entries ELSE [entries EXCEPT ![k] = None]

Files == <<file, saving, loading>>

-----------------------------------------------------------------------------
(* In memory.                                                              *)

StateSet(k) ==
  /\ \E v \in Value, ttl \in 0 .. MaxTtl :
       entries' = [entries EXCEPT ![k] = [value |-> v, updatedAt |-> now, ttl |-> ttl]]
  /\ UNCHANGED <<kept, lastState, Files, now>>

StateGet(k) ==
  /\ lastState' = IF Present(entries[k]) THEN entries[k].value ELSE None
  /\ entries' = Dropped(k)
  /\ UNCHANGED <<kept, Files, now>>

StateHas(k) == entries' = Dropped(k) /\ UNCHANGED <<kept, lastState, Files, now>>

StateDelete(k) ==
  entries' = [entries EXCEPT ![k] = None] /\ UNCHANGED <<kept, lastState, Files, now>>

\* keys() and count purge first.
StateKeys == entries' = Purged /\ UNCHANGED <<kept, lastState, Files, now>>

\* A snapshot is taken.
Keeps ==
  /\ entries' = Purged /\ kept' = kept \cup {Purged}
  /\ Cardinality(kept') <= MaxKept  \* (bound)

StateSnapshot == Keeps /\ UNCHANGED <<lastState, Files, now>>

\* restore(): the Map is emptied; what has expired since is not put back.
StateRestore ==
  /\ \E data \in kept : entries' = Pruned(data)
  /\ UNCHANGED <<kept, lastState, Files, now>>

-----------------------------------------------------------------------------
(* The file.                                                               *)

Torn == [is |-> "torn", data |-> NoEntries]

\* save() takes its snapshot and the write begins: the old content is gone.
SaveStart(s) ==
  /\ saving[s].is = "idle"
  /\ Keeps
  /\ saving' = [saving EXCEPT ![s] = [is |-> "writing", data |-> Purged]]
  /\ file' = Torn
  /\ UNCHANGED <<lastState, loading, now>>

\* The write ends.  If another ended since it began, the two may have mixed.
SaveEnds(s) ==
  /\ saving[s].is = "writing"
  /\ \/ file' = [is |-> "whole", data |-> saving[s].data]
     \/ file # Torn /\ file' = Torn
  /\ saving' = [saving EXCEPT ![s].is = "over"]
  /\ UNCHANGED <<entries, kept, lastState, loading, now>>

\* load() reads the file; it throws when there is none or it is no JSON.
LoadRead ==
  /\ loading = {} /\ file.is = "whole"
  /\ loading' = {file.data}
  /\ UNCHANGED <<entries, kept, lastState, file, saving, now>>

BugLoadRestarts ==
  /\ \E data \in loading :
       entries' = [k \in Key |-> IF data[k] = None THEN None ELSE [data[k] EXCEPT !.updatedAt = now]]
  /\ loading' = {}
  /\ UNCHANGED <<kept, lastState, file, saving, now>>

LoadRestore ==
  /\ \E data \in loading : entries' = Pruned(data)
  /\ loading' = {}
  /\ UNCHANGED <<kept, lastState, file, saving, now>>

StateTick == Tick /\ UNCHANGED inStoreVars

StateNext ==
  \/ \E k \in Key : StateSet(k) \/ StateGet(k) \/ StateHas(k) \/ StateDelete(k)
  \/ StateKeys \/ StateSnapshot \/ StateRestore
  \/ \E s \in Saver : SaveStart(s) \/ SaveEnds(s)
  \/ LoadRead \/ LoadRestore \/ StateTick

StateSpec == StateInit /\ [][StateNext]_stateVars
-----------------------------------------------------------------------------
\* The Map, the file and the calls under way hold what they are meant to.
StateTypeOK ==
  /\ entries \in Data /\ kept \subseteq Data
  /\ file \in [is : {"none", "torn", "whole"}, data : Data]
  /\ saving \in [Saver -> [is : {"idle", "writing", "over"}, data : Data]]
  /\ loading \subseteq Data
  /\ lastState \in Value \cup {None}
  /\ now \in 0 .. MaxTime

Plain(data) ==
  [k \in Key |-> IF data[k] = None THEN None ELSE [value |-> data[k].value, until |-> EndsAt(data[k])]]

PlainState == INSTANCE ExpiringMap WITH
  Name <- Key, Until <- 0 .. (MaxTime + MaxTtl) \cup {Never},
  map <- Plain(Purged), saved <- {Plain(data) : data \in kept}, seen <- lastState

\* To its users the store is a map with expiry: when entries are purged does not
\* show, and whatever saves and loads overlap, a load puts back one snapshot as
\* it was taken, less what has expired since, or nothing at all.
StateStoreIsMap == PlainState!Spec
=============================================================================

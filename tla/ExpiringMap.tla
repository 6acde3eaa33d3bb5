---------------------------- MODULE ExpiringMap ----------------------------
(***************************************************************************)
(* What the secret store and the state store promise, and all they         *)
(* promise: a map whose entries vanish when their time is over, that can   *)
(* be saved and replaced by something that was saved.  Encryption, key     *)
(* rotation, the purging of expired entries, checksums and files are not   *)
(* visible here.  SecretStore and StateStore implement it.                 *)
(***************************************************************************)
EXTENDS Naturals

CONSTANTS
  Name, Value,
  Until,  \* when an entry may end, Never among them
  Never, None

VARIABLES
  map,    \* what each name is bound to, [value, until] or None
  saved,  \* the maps that can be restored
  seen,   \* what the last reader was given
  now

mapVars == <<map, saved, seen, now>>

Lasts(e, t) == e # None /\ (e.until = Never \/ t <= e.until)

\* The entries of m whose time is not over at t.
Pruned(m, t) == [n \in Name |-> IF Lasts(m[n], t) THEN m[n] ELSE None]

Init == map = [n \in Name |-> None] /\ saved = {} /\ seen = None /\ now = 0

Put(n) == \E v \in Value, u \in Until :
            /\ map' = Pruned([map EXCEPT ![n] = [value |-> v, until |-> u]], now)
            /\ UNCHANGED <<saved, seen, now>>

Drop(n) == map' = [map EXCEPT ![n] = None] /\ UNCHANGED <<saved, seen, now>>

Read(n) == /\ seen' = IF map[n] = None THEN None ELSE map[n].value
           /\ UNCHANGED <<map, saved, now>>

Save == saved' = saved \cup {map} /\ UNCHANGED <<map, seen, now>>

\* A saved map is overwritten or damaged: it can no longer be restored.
Forget == saved' \in SUBSET saved /\ UNCHANGED <<map, seen, now>>

Restore == \E m \in saved : map' = Pruned(m, now) /\ UNCHANGED <<saved, seen, now>>

Pass == now' = now + 1 /\ map' = Pruned(map, now') /\ UNCHANGED <<saved, seen>>

Next == \/ \E n \in Name : Put(n) \/ Drop(n) \/ Read(n)
        \/ Save \/ Forget \/ Restore \/ Pass

Spec == Init /\ [][Next]_mapVars
=============================================================================

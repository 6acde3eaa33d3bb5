---------------------------- MODULE SecretStore ----------------------------
(***************************************************************************)
(* The encrypted secret store (secrets/store.ts).  A ciphertext is the     *)
(* text with the key it was encrypted under, a checksum the data it covers *)
(* with the key it was made with.  Every operation is synchronous, so each *)
(* is one action.  Left out: a call the capabilities deny (it throws       *)
(* before anything changes), audit entries, namespaces and the dates that  *)
(* only meta() shows.                                                      *)
(***************************************************************************)
EXTENDS Clock, FiniteSets

CONSTANTS
  Name,          \* the names of secrets
  Text,          \* their values
  Master,        \* master keys
  Malformed,     \* those of them AES cannot use: not 32 bytes
  MaxSnapshots   \* bound: snapshots taken

ASSUME SecretAssumption ==
  /\ Malformed \subseteq Master /\ Master \ Malformed # {}
  /\ None \notin [text : Text, under : Master, expires : Nat \cup {Never}]
  /\ None \notin [value : Text, until : Nat \cup {Never}]
  /\ MaxSnapshots \in Nat

VARIABLES
  secrets,      \* the map of StoredSecrets
  currentKey,
  snapshots,    \* snapshots somebody keeps, damaged ones among them
  lastRead      \* what get() last returned (None: undefined, or it threw)

inVaultVars == <<secrets, currentKey, snapshots, lastRead>>
secretVars == <<inVaultVars, now>>

Date == 0 .. MaxTime \cup {Never}
StoredSecret == [text : Text, under : Master, expires : Date]
NoSecrets == [n \in Name |-> None]

SecretInit ==
  /\ secrets = NoSecrets /\ snapshots = {} /\ lastRead = None /\ now = 0
  /\ currentKey \in Master \ Malformed

IsExpired(s) == s.expires # Never /\ s.expires < now
IsLive(s) == s # None /\ ~IsExpired(s)

DeleteIfExpired(n) ==
  IF secrets[n] = None \/ IsLive(secrets[n]) THEN secrets ELSE [secrets EXCEPT ![n] = None]

\* decryptValue() throws unless the key is the one the text was encrypted under.
DecryptValue(s, key) == IF s.under = key THEN s.text ELSE None

\* set(), and secretFromEnv() through it.  Encrypting throws under a malformed key.
SecretSet(n) ==
  /\ currentKey \notin Malformed
  /\ \E t \in Text, d \in Date :
       secrets' = [secrets EXCEPT ![n] = [text |-> t, under |-> currentKey, expires |-> d]]
  /\ UNCHANGED <<currentKey, snapshots, lastRead, now>>

\* get(); authBearer(), authBasic() and authedFetch() read their tokens by it.
SecretGet(n) ==
  /\ lastRead' = IF IsLive(secrets[n]) THEN DecryptValue(secrets[n], currentKey) ELSE None
  /\ secrets' = DeleteIfExpired(n)
  /\ UNCHANGED <<currentKey, snapshots, now>>

SecretHas(n) == secrets' = DeleteIfExpired(n) /\ UNCHANGED <<currentKey, snapshots, lastRead, now>>

SecretDelete(n) ==
  secrets' = [secrets EXCEPT ![n] = None] /\ UNCHANGED <<currentKey, snapshots, lastRead, now>>

\* Reading count purges what has expired.
SecretCount ==
  /\ secrets' = [n \in Name |-> IF IsLive(secrets[n]) THEN secrets[n] ELSE None]
  /\ UNCHANGED <<currentKey, snapshots, lastRead, now>>

BugRotateKey(key) ==
  /\ key \notin Malformed
  /\ secrets' = [n \in Name |->
       IF IsLive(secrets[n])
       THEN [secrets[n] EXCEPT !.text = DecryptValue(secrets[n], key), !.under = key]
       ELSE None]
  /\ currentKey' = key
  /\ UNCHANGED <<snapshots, lastRead, now>>

\* rotateKey() with a key AES can use: what has expired goes, the rest is
\* decrypted with the old key and encrypted with the new one.
RotateKey(key) ==
  /\ key \notin Malformed
  /\ secrets' = [n \in Name |->
       IF IsLive(secrets[n])
       THEN [secrets[n] EXCEPT !.text = DecryptValue(secrets[n], currentKey), !.under = key]
       ELSE None]
  /\ currentKey' = key
  /\ UNCHANGED <<snapshots, lastRead, now>>

\* With a malformed one the first live secret throws, after the expired ones
\* before it were dropped; without a live secret nothing notices.
RotateToMalformed(key) ==
  /\ key \in Malformed
  /\ LET live == {n \in Name : IsLive(secrets[n])}
     IN  \E dropped \in SUBSET {n \in Name : ~IsLive(secrets[n])} :
           /\ live = {} => dropped = Name
           /\ secrets' = [n \in Name |-> IF n \in dropped THEN None ELSE secrets[n]]
           /\ currentKey' = IF live = {} THEN key ELSE currentKey
  /\ UNCHANGED <<snapshots, lastRead, now>>

\* The checksum of data under a key.
ComputeHmac(data, key) == <<data, key>>

TakeSnapshot ==
  /\ Cardinality(snapshots) < MaxSnapshots
  /\ LET data == [n \in Name |-> IF IsLive(secrets[n]) THEN secrets[n] ELSE None]
     IN  snapshots' = snapshots \cup {[secrets |-> data, hmac |-> ComputeHmac(data, currentKey)]}
  /\ UNCHANGED <<secrets, currentKey, lastRead, now>>

\* A snapshot that is kept outside loses an entry.
Damage == \E s \in snapshots, n \in Name :
  /\ s.secrets[n] # None
  /\ snapshots' = (snapshots \ {s}) \cup {[s EXCEPT !.secrets[n] = None]}
  /\ UNCHANGED <<secrets, currentKey, lastRead, now>>

Intact(s, key) == s.hmac = ComputeHmac(s.secrets, key)

BugRestoreUnverified == \E s \in snapshots :
  /\ secrets' = s.secrets
  /\ UNCHANGED <<currentKey, snapshots, lastRead, now>>

\* restore() throws when the checksum does not fit the data and the current key;
\* it puts back what has expired since, for the readers to drop.
SecretRestore == \E s \in snapshots :
  /\ Intact(s, currentKey)
  /\ secrets' = s.secrets
  /\ UNCHANGED <<currentKey, snapshots, lastRead, now>>

SecretTick == Tick /\ UNCHANGED inVaultVars

SecretNext ==
  \/ \E n \in Name : SecretSet(n) \/ SecretGet(n) \/ SecretHas(n) \/ SecretDelete(n)
  \/ \E key \in Master : RotateKey(key) \/ RotateToMalformed(key)
  \/ SecretCount \/ TakeSnapshot \/ Damage \/ SecretRestore \/ SecretTick

SecretSpec == SecretInit /\ [][SecretNext]_secretVars
-----------------------------------------------------------------------------
\* The store, its key and the snapshots hold what they are meant to.
SecretTypeOK ==
  /\ secrets \in [Name -> StoredSecret \cup {None}]
  /\ currentKey \in Master
  /\ \A s \in snapshots : /\ s.secrets \in [Name -> StoredSecret \cup {None}]
                          /\ s.hmac \in [Name -> StoredSecret \cup {None}] \X Master
  /\ lastRead \in Text \cup {None}
  /\ now \in 0 .. MaxTime

\* What a reader can still get out of a map of stored secrets.
Readable(data, key) ==
  [n \in Name |-> IF IsLive(data[n]) /\ data[n].under = key
                  THEN [value |-> data[n].text, until |-> data[n].expires] ELSE None]

\* What a snapshot holds, for whoever has the key it was made under.
Kept(s) ==
  [n \in Name |-> IF s.secrets[n] # None /\ s.secrets[n].under = s.hmac[2]
                  THEN [value |-> s.secrets[n].text, until |-> s.secrets[n].expires] ELSE None]

PlainMap == INSTANCE ExpiringMap WITH
  Value <- Text, Until <- Date,
  map <- Readable(secrets, currentKey),
  saved <- {Kept(s) : s \in {t \in snapshots : Intact(t, t.hmac[2])}},
  seen <- lastRead

\* The store is a map with expiry to its users: rotation, purging, encryption
\* and rejected snapshots do not show, and nothing else ever changes an answer.
SecretStoreIsMap == PlainMap!Spec
=============================================================================

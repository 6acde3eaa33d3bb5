------------------------- MODULE AuditTrail_proofs -------------------------
(***************************************************************************)
(* Proofs about AuditTrail, for every set of sessions, callers, dashboards *)
(* and paging clients.                                                     *)
(*                                                                         *)
(* TrailComplete is inductive together with the types: a new entry's place *)
(* in its log is one more than the log's length, and every collected entry *)
(* of the session has a place in that log, so the new one comes after it.  *)
(*                                                                         *)
(* FeedMissesOnlyAborted needs to know that the listeners stand in the     *)
(* order their clients registered, each once: a cut that separates the     *)
(* reached from the others is then a cut in Before.  PagingMissesNothing   *)
(* needs what a client has not seen yet to lie behind its offset, and that *)
(* an entry that arrives moves the others back, never forward.             *)
(***************************************************************************)
EXTENDS AuditTrail, FiniteSetTheorems, SequenceTheorems, TLAPS

AuditIInv == AuditTypeOK /\ TrailComplete

----------------------------------------------------------------------------
(* Types, one lemma per action with something to say.                      *)

LEMMA LogTyped ==
    ASSUME AuditTypeOK, NEW s \in Session, NEW by \in Actor, NEW cut \in Cuts(s), Log(s, by, cut)
    PROVE  AuditTypeOK'
<1> DEFINE e == [session |-> s, by |-> by, n |-> Len(local[s]) + 1]
           g == Len(globalEntries) + 1
<1>1. /\ local \in [Session -> Seq(Entry)] /\ local[s] \in Seq(Entry)
      /\ globalEntries \in Seq(Entry) /\ listeners \in Seq(Client)
      /\ feed \in [Client -> Feed]
    BY DEF AuditTypeOK
<1>2. e \in Entry
    BY <1>1 DEF Entry
<1>3. g \in Nat \ {0}
    BY <1>1
<1>4. local' \in [Session -> Seq(Entry)]
    BY <1>1, <1>2 DEF Log
<1>5. globalEntries' \in Seq(Entry)
    BY <1>1, <1>2 DEF Log
<1>6. feed' \in [Client -> Feed]
    <2>1. ASSUME NEW c \in Client
          PROVE  [feed[c] EXCEPT !.got = Append(@, g)] \in Feed
        <3>1. feed[c] \in Feed
            BY <1>1
        <3>2. Append(feed[c].got, g) \in Seq(Nat \ {0})
            BY <1>3, <3>1 DEF Feed
        <3> QED
            BY <3>1, <3>2 DEF Feed
    <2> QED
        BY <1>1, <2>1 DEF Log, Deliver
<1>7. aborted' \subseteq (Nat \X Client)
    <2>1. CASE cut = NoThrow
        BY <2>1 DEF AuditTypeOK, Log, Deliver
    <2>2. CASE cut # NoThrow
        <3>1. listeners[cut] \in Client
            BY <1>1, <2>2 DEF Cuts
        <3> QED
            BY <1>3, <2>2, <3>1 DEF AuditTypeOK, Log, Deliver
    <2> QED
        BY <2>1, <2>2
<1> QED
    BY <1>4, <1>5, <1>6, <1>7 DEF AuditTypeOK, Log

LEMMA ConnectTyped ==
    ASSUME AuditTypeOK, NEW c \in Client, NEW f \in Filter, Connect(c, f)
    PROVE  AuditTypeOK'
<1>1. feed' \in [Client -> Feed]
    <2> DEFINE d == [feed[c] EXCEPT !.state = "open", !.filter = f, !.from = Len(globalEntries)]
    <2>1. feed[c] \in Feed /\ Len(globalEntries) \in Nat
        BY DEF AuditTypeOK
    <2>2. d \in Feed
        BY <2>1 DEF Feed
    <2>3. feed' = [feed EXCEPT ![c] = d]
        BY DEF Connect
    <2> QED
        BY <2>2, <2>3 DEF AuditTypeOK
<1>2. listeners' \in Seq(Client) /\ registered' \in Seq(Client)
    BY DEF AuditTypeOK, Connect
<1> QED
    BY <1>1, <1>2 DEF AuditTypeOK, Connect

LEMMA DisconnectTyped ==
    ASSUME AuditTypeOK, NEW c \in Client, Disconnect(c)
    PROVE  AuditTypeOK'
<1>1. feed' \in [Client -> Feed]
    <2> DEFINE d == [feed[c] EXCEPT !.state = "gone", !.until = Len(globalEntries)]
    <2>1. feed[c] \in Feed /\ Len(globalEntries) \in Nat
        BY DEF AuditTypeOK
    <2>2. d \in Feed
        BY <2>1 DEF Feed
    <2>3. feed' = [feed EXCEPT ![c] = d]
        BY DEF Disconnect
    <2> QED
        BY <2>2, <2>3 DEF AuditTypeOK
<1> QED
    BY <1>1 DEF AuditTypeOK, Disconnect

LEMMA CleanupTyped ==
    ASSUME AuditTypeOK, NEW c \in Client, Cleanup(c)
    PROVE  AuditTypeOK'
<1>1. feed' \in [Client -> Feed]
    <2> DEFINE d == [feed[c] EXCEPT !.state = "closed"]
    <2>1. feed[c] \in Feed
        BY DEF AuditTypeOK
    <2>2. d \in Feed
        BY <2>1 DEF Feed
    <2>3. feed' = [feed EXCEPT ![c] = d]
        BY DEF Cleanup
    <2> QED
        BY <2>2, <2>3 DEF AuditTypeOK
<1>2. listeners' \in Seq(Client)
    <2>1. listeners \in Seq(Client)
        BY DEF AuditTypeOK
    <2>2. PICK i \in DOMAIN listeners :
              listeners' = SubSeq(listeners, 1, i - 1) \o SubSeq(listeners, i + 1, Len(listeners))
        BY DEF Cleanup
    <2>3. /\ SubSeq(listeners, 1, i - 1) \in Seq(Client)
          /\ SubSeq(listeners, i + 1, Len(listeners)) \in Seq(Client)
        BY <2>1
    <2> QED
        BY <2>2, <2>3
<1> QED
    BY <1>1, <1>2 DEF AuditTypeOK, Cleanup

LEMMA StartPagingTyped ==
    ASSUME AuditTypeOK, NEW p \in Reader, NEW f \in Filter, StartPaging(p, f)
    PROVE  AuditTypeOK'
<1>1. pager' \in [Reader -> Pager]
    <2> DEFINE q == [pager[p] EXCEPT !.state = "paging", !.filter = f, !.base = Len(globalEntries)]
    <2>1. pager[p] \in Pager /\ Len(globalEntries) \in Nat
        BY DEF AuditTypeOK
    <2>2. q \in Pager
        BY <2>1 DEF Pager
    <2>3. pager' = [pager EXCEPT ![p] = q]
        BY DEF StartPaging
    <2> QED
        BY <2>2, <2>3 DEF AuditTypeOK
<1> QED
    BY <1>1 DEF AuditTypeOK, StartPaging

LEMMA QueryPageTyped ==
    ASSUME AuditTypeOK, NEW p \in Reader, QueryPage(p)
    PROVE  AuditTypeOK'
<1> DEFINE f    == pager[p].filter
           next == pager[p].offset + PageSize
           more == IF next < Cardinality(Matching(f)) THEN "paging" ELSE "done"
<1>1. pager[p] \in Pager /\ globalEntries \in Seq(Entry)
    BY DEF AuditTypeOK
<1>2. next \in Nat /\ more \in {"idle", "paging", "done"}
    BY <1>1, PageSizeAssumption DEF Pager
<1>3. Page(f, pager[p].offset) \subseteq Nat \ {0}
    BY <1>1 DEF Page, Matching
<1>4. [pager[p] EXCEPT !.seen = @ \cup Page(f, pager[p].offset),
                       !.offset = next, !.state = more] \in Pager
    BY <1>1, <1>2, <1>3 DEF Pager
<1>5. pager' = [pager EXCEPT ![p] = [pager[p] EXCEPT
                    !.seen = @ \cup Page(f, pager[p].offset),
                    !.offset = next, !.state = more]]
    BY DEF QueryPage
<1>6. pager' \in [Reader -> Pager]
    BY <1>4, <1>5 DEF AuditTypeOK
<1> QED
    BY <1>6 DEF AuditTypeOK, QueryPage

----------------------------------------------------------------------------
(* The two records of one story.                                           *)

LEMMA LogKeepsTrail ==
    ASSUME AuditIInv, NEW s \in Session, NEW by \in Actor, NEW cut \in Cuts(s), Log(s, by, cut)
    PROVE  TrailComplete'
<1> DEFINE e == [session |-> s, by |-> by, n |-> Len(local[s]) + 1]
<1>1. /\ local \in [Session -> Seq(Entry)] /\ globalEntries \in Seq(Entry)
      /\ Len(globalEntries) \in Nat /\ \A z \in Session : Len(local[z]) \in Nat
    BY DEF AuditIInv, AuditTypeOK
<1>2. /\ local' = [local EXCEPT ![s] = Append(@, e)]
      /\ globalEntries' = Append(globalEntries, e)
    BY DEF Log
<1> HIDE DEF e
<1>3. e.session = s /\ e.n = Len(local[s]) + 1 /\ e \in Entry
    BY <1>1 DEF e, Entry
<1>4. /\ DOMAIN globalEntries = 1 .. Len(globalEntries)
      /\ DOMAIN globalEntries' = 1 .. Len(globalEntries) + 1
      /\ globalEntries'[Len(globalEntries) + 1] = e
      /\ \A g \in DOMAIN globalEntries : globalEntries'[g] = globalEntries[g]
    BY <1>1, <1>2, <1>3
<1>5. /\ DOMAIN local[s] = 1 .. Len(local[s])
      /\ DOMAIN local'[s] = 1 .. Len(local[s]) + 1
      /\ local'[s][Len(local[s]) + 1] = e
      /\ \A n \in DOMAIN local[s] : local'[s][n] = local[s][n]
      /\ \A z \in Session : z # s => local'[z] = local[z]
    BY <1>1, <1>2, <1>3
<1>6. ASSUME NEW z \in Session, NEW n \in DOMAIN local'[z]
      PROVE  \E g \in DOMAIN globalEntries' : globalEntries'[g] = local'[z][n]
    <2>1. CASE z = s /\ n = Len(local[s]) + 1
        <3>1. Len(globalEntries) + 1 \in DOMAIN globalEntries'
            BY <1>1, <1>4
        <3> QED
            BY <1>4, <1>5, <2>1, <3>1
    <2>2. CASE ~ (z = s /\ n = Len(local[s]) + 1)
        <3>1. n \in DOMAIN local[z] /\ local'[z][n] = local[z][n]
            <4>1. CASE z # s
                BY <1>5, <4>1
            <4>2. CASE z = s
                <5>1. n \in 1 .. Len(local[s]) + 1 /\ n # Len(local[s]) + 1
                    BY <1>5, <2>2, <4>2
                <5>2. n \in DOMAIN local[s]
                    BY <1>1, <1>5, <5>1
                <5> QED
                    BY <1>5, <4>2, <5>2
            <4> QED
                BY <4>1, <4>2
        <3>2. PICK g \in DOMAIN globalEntries : globalEntries[g] = local[z][n]
            BY <3>1 DEF AuditIInv, TrailComplete
        <3>3. g \in DOMAIN globalEntries'
            BY <1>1, <1>4
        <3> QED
            BY <1>4, <3>1, <3>2, <3>3
    <2> QED
        BY <2>1, <2>2
<1>7. ASSUME NEW g \in DOMAIN globalEntries
      PROVE  /\ globalEntries[g].session \in Session
             /\ globalEntries[g].n \in DOMAIN local[globalEntries[g].session]
             /\ local[globalEntries[g].session][globalEntries[g].n] = globalEntries[g]
    <2>1. globalEntries[g] \in Entry
        BY <1>1
    <2> QED
        BY <2>1 DEF Entry, AuditIInv, TrailComplete
<1>8. ASSUME NEW g \in DOMAIN globalEntries'
      PROVE  /\ globalEntries'[g].n \in DOMAIN local'[globalEntries'[g].session]
             /\ local'[globalEntries'[g].session][globalEntries'[g].n] = globalEntries'[g]
    <2>1. CASE g = Len(globalEntries) + 1
        <3>1. Len(local[s]) + 1 \in DOMAIN local'[s]
            BY <1>1, <1>5
        <3>2. globalEntries'[g] = e
            BY <1>4, <2>1
        <3> QED
            BY <1>3, <1>5, <3>1, <3>2
    <2>2. CASE g # Len(globalEntries) + 1
        <3>1. g \in DOMAIN globalEntries /\ globalEntries'[g] = globalEntries[g]
            BY <1>1, <1>4, <2>2
        <3>2. CASE globalEntries[g].session = s
            <4>1. DOMAIN local[s] \subseteq DOMAIN local'[s]
                BY <1>1, <1>5
            <4> QED
                BY <1>5, <1>7, <3>1, <3>2, <4>1
        <3>3. CASE globalEntries[g].session # s
            BY <1>5, <1>7, <3>1, <3>3
        <3> QED
            BY <3>2, <3>3
    <2> QED
        BY <2>1, <2>2
<1>9. ASSUME NEW g \in DOMAIN globalEntries', NEW h \in DOMAIN globalEntries', g < h,
             globalEntries'[g].session = globalEntries'[h].session
      PROVE  globalEntries'[g].n < globalEntries'[h].n
    <2>1. g \in DOMAIN globalEntries /\ globalEntries'[g] = globalEntries[g]
        BY <1>1, <1>4, <1>9
    <2>2. CASE h = Len(globalEntries) + 1
        <3>1. globalEntries[g].session = s /\ globalEntries'[h] = e
            BY <1>3, <1>4, <1>9, <2>1, <2>2
        <3>2. globalEntries[g].n \in 1 .. Len(local[s])
            BY <1>5, <1>7, <2>1, <3>1
        <3> QED
            BY <1>1, <1>3, <2>1, <3>1, <3>2
    <2>3. CASE h # Len(globalEntries) + 1
        <3>1. h \in DOMAIN globalEntries /\ globalEntries'[h] = globalEntries[h]
            BY <1>1, <1>4, <2>3
        <3> QED
            BY <1>9, <2>1, <3>1 DEF AuditIInv, TrailComplete
    <2> QED
        BY <2>2, <2>3
<1> QED
    BY <1>6, <1>8, <1>9 DEF TrailComplete

LEMMA NextAuditIInv == AuditIInv /\ [AuditNext]_auditVars => AuditIInv'
<1> SUFFICES ASSUME AuditIInv, [AuditNext]_auditVars
             PROVE  AuditIInv'
    OBVIOUS
<1>0. AuditTypeOK /\ TrailComplete
    BY DEF AuditIInv
<1>1. ASSUME NEW s \in Session, NEW by \in Actor, NEW cut \in Cuts(s), Log(s, by, cut)
      PROVE  AuditIInv'
    BY <1>0, <1>1, LogTyped, LogKeepsTrail DEF AuditIInv
<1>2. ASSUME UNCHANGED <<local, globalEntries>>
      PROVE  TrailComplete'
    BY <1>0, <1>2 DEF TrailComplete
<1>3. ASSUME NEW c \in Client, NEW f \in Filter, Connect(c, f)
      PROVE  AuditIInv'
    BY <1>0, <1>2, <1>3, ConnectTyped DEF AuditIInv, Connect
<1>4. ASSUME NEW c \in Client, Disconnect(c)
      PROVE  AuditIInv'
    BY <1>0, <1>2, <1>4, DisconnectTyped DEF AuditIInv, Disconnect
<1>5. ASSUME NEW c \in Client, Cleanup(c)
      PROVE  AuditIInv'
    BY <1>0, <1>2, <1>5, CleanupTyped DEF AuditIInv, Cleanup
<1>6. ASSUME NEW p \in Reader, NEW f \in Filter, StartPaging(p, f)
      PROVE  AuditIInv'
    BY <1>0, <1>2, <1>6, StartPagingTyped DEF AuditIInv, StartPaging
<1>7. ASSUME NEW p \in Reader, QueryPage(p)
      PROVE  AuditIInv'
    BY <1>0, <1>2, <1>7, QueryPageTyped DEF AuditIInv, QueryPage
<1>8. CASE UNCHANGED auditVars
    <2>1. AuditTypeOK'
        BY <1>0, <1>8 DEF auditVars, AuditTypeOK
    <2> QED
        BY <1>2, <1>8, <2>1 DEF auditVars, AuditIInv
<1> QED
    BY <1>1, <1>3, <1>4, <1>5, <1>6, <1>7, <1>8 DEF AuditNext

LEMMA InitAuditIInv == AuditInit => AuditIInv
<1> SUFFICES ASSUME AuditInit PROVE AuditIInv
    OBVIOUS
<1>1. feed \in [Client -> Feed]
    <2>1. [state |-> "none", filter |-> AnyId, from |-> 0, until |-> 0, got |-> <<>>] \in Feed
        BY DEF Feed, Filter
    <2> QED
        BY <2>1 DEF AuditInit
<1>2. pager \in [Reader -> Pager]
    <2>1. [state |-> "idle", filter |-> AnyId, base |-> 0, offset |-> 0, seen |-> {}] \in Pager
        BY DEF Pager, Filter
    <2> QED
        BY <2>1 DEF AuditInit
<1>3. AuditTypeOK
    <2>1. local \in [Session -> Seq(Entry)]
        BY DEF AuditInit
    <2>2. /\ globalEntries \in Seq(Entry) /\ listeners \in Seq(Client)
          /\ registered \in Seq(Client) /\ aborted \subseteq (Nat \X Client)
        BY DEF AuditInit
    <2> QED
        BY <1>1, <1>2, <2>1, <2>2 DEF AuditTypeOK
<1>4. TrailComplete
    BY DEF AuditInit, TrailComplete
<1> QED
    BY <1>3, <1>4 DEF AuditIInv

----------------------------------------------------------------------------
(* The theorems.                                                           *)

THEOREM TrailInvariant == AuditSpec => []AuditIInv
    BY InitAuditIInv, NextAuditIInv, PTL DEF AuditSpec

\* Every state of the trail is well typed; an emission that ends early ends at
\* a listener there is, and a page holds positions in the collection only.
THEOREM TrailTyped == AuditSpec => []AuditTypeOK
<1>1. AuditIInv => AuditTypeOK
    BY DEF AuditIInv
<1> QED
    BY <1>1, TrailInvariant, PTL

\* However many sessions log and whatever dashboards come, go or fail, the
\* server's collection is a merge of the sessions' logs: nothing missing,
\* nothing invented, each session in order (logger.ts, session.ts:121-123).
THEOREM TrailIsComplete == AuditSpec => []TrailComplete
<1>1. AuditIInv => TrailComplete
    BY DEF AuditIInv
<1> QED
    BY <1>1, TrailInvariant, PTL


----------------------------------------------------------------------------
(* What a subscriber is sent.  An emission stops at the listener whose     *)
(* write throws; the listeners behind it are those that registered later,  *)
(* because listeners are appended and taken off without changing places.   *)

\* A client registers once, when it connects.
RegisteredOnce ==
    /\ \A i, j \in DOMAIN registered : registered[i] = registered[j] => i = j
    /\ \A c \in Client : feed[c].state # "none" <=> \E i \in DOMAIN registered : registered[i] = c

\* Who still listens does so in the order of registration.
ListensInTurn ==
    /\ \A i, j \in DOMAIN listeners : i < j => Before(listeners[i], listeners[j])
    /\ \A c \in Client :
          feed[c].state \in {"open", "gone"} <=> \E i \in DOMAIN listeners : listeners[i] = c

\* Nothing is about an entry that has yet to come.
FeedIsOfThePast ==
    /\ \A c \in Client : /\ feed[c].from <= Len(globalEntries)
                         /\ feed[c].until <= Len(globalEntries)
                         /\ feed[c].state = "none" => feed[c].got = <<>>
    /\ \A x \in aborted : x[1] \in DOMAIN globalEntries

FeedIInv == RegisteredOnce /\ ListensInTurn /\ FeedIsOfThePast /\ FeedMissesOnlyAborted

\* Of one client: what it was sent, and what it should have been.
Sent(c) == {feed[c].got[i] : i \in DOMAIN feed[c].got}

Due(c) == {g \in Window(c) : /\ Passes(feed[c].filter, globalEntries[g].session)
                             /\ ~ \E d \in Client : <<g, d>> \in aborted /\ Before(d, c)}

Increasing(c) == \A i, j \in DOMAIN feed[c].got : i < j => feed[c].got[i] < feed[c].got[j]

(* Paging: entries that arrive push the others back, never forward.        *)

\* What a client that pages has not seen yet lies at or behind its offset.
PagesOn ==
    \A p \in Reader :
        /\ pager[p].base <= Len(globalEntries)
        /\ pager[p].state = "idle" => pager[p].offset = 0
        /\ pager[p].state = "paging" =>
              \A g \in Matching(pager[p].filter) :
                  g <= pager[p].base => g \in pager[p].seen \/ pager[p].offset < Rank(pager[p].filter, g)

PagingIInv == PagesOn /\ PagingMissesNothing

LEMMA FeedMeans ==
    FeedMissesOnlyAborted <=>
        \A c \in Client : feed[c].state # "none" => Increasing(c) /\ Sent(c) = Due(c)
    BY Zenon DEF FeedMissesOnlyAborted, Increasing, Sent, Due

LEMMA FeedTypes ==
    ASSUME AuditTypeOK
    PROVE  /\ globalEntries \in Seq(Entry) /\ Len(globalEntries) \in Nat
           /\ DOMAIN globalEntries = 1 .. Len(globalEntries)
           /\ listeners \in Seq(Client) /\ registered \in Seq(Client)
           /\ Len(listeners) \in Nat /\ Len(registered) \in Nat
           /\ DOMAIN listeners = 1 .. Len(listeners) /\ DOMAIN registered = 1 .. Len(registered)
           /\ \A c \in Client : /\ feed[c] \in Feed
                                /\ feed[c].from \in Nat /\ feed[c].until \in Nat
                                /\ feed[c].got \in Seq(Nat \ {0})
                                /\ DOMAIN feed[c].got = 1 .. Len(feed[c].got)
                                /\ Len(feed[c].got) \in Nat
<1>1. \A c \in Client : feed[c] \in Feed
    BY DEF AuditTypeOK
<1>2. \A c \in Client : feed[c].from \in Nat /\ feed[c].until \in Nat /\ feed[c].got \in Seq(Nat \ {0})
    BY <1>1 DEF Feed
<1> QED
    BY <1>1, <1>2 DEF AuditTypeOK

\* No two clients registered before each other.
LEMMA BeforeIsStrict ==
    ASSUME AuditTypeOK, RegisteredOnce, NEW c \in Client, NEW d \in Client, Before(c, d)
    PROVE  ~ Before(d, c)
<1> SUFFICES ASSUME Before(d, c) PROVE FALSE
    OBVIOUS
<1>1. PICK i \in DOMAIN registered, j \in DOMAIN registered : i < j /\ registered[i] = c /\ registered[j] = d
    BY DEF Before
<1>2. PICK k \in DOMAIN registered, l \in DOMAIN registered : k < l /\ registered[k] = d /\ registered[l] = c
    BY DEF Before
<1>3. i = l /\ j = k
    BY <1>1, <1>2 DEF RegisteredOnce
<1>4. i \in Nat /\ j \in Nat
    BY FeedTypes
<1> QED
    BY <1>1, <1>2, <1>3, <1>4

\* An emission that ends at cut reaches the open listeners before it, and those
\* only: what it leaves out registered after the client whose write threw.
LEMMA CutSeparates ==
    ASSUME AuditTypeOK, RegisteredOnce, ListensInTurn,
           NEW cut \in DOMAIN listeners, feed[listeners[cut]].state = "gone",
           NEW c \in Client, feed[c].state = "open"
    PROVE  (\E i \in DOMAIN listeners : i < cut /\ listeners[i] = c) <=> ~ Before(listeners[cut], c)
<1>1. listeners[cut] \in Client /\ cut \in Nat
    BY FeedTypes
<1>2. PICK k \in DOMAIN listeners : listeners[k] = c
    BY DEF ListensInTurn
<1>3. k \in Nat /\ k # cut
    BY <1>2, FeedTypes
<1>4. CASE k < cut
    <2>1. Before(c, listeners[cut])
        BY <1>2, <1>4 DEF ListensInTurn
    <2> QED
        BY <1>1, <1>2, <1>4, <2>1, BeforeIsStrict
<1>5. CASE cut < k
    <2>1. Before(listeners[cut], c)
        BY <1>2, <1>5 DEF ListensInTurn
    <2>2. ASSUME NEW i \in DOMAIN listeners, i < cut, listeners[i] = c
          PROVE  FALSE
        <3>1. Before(c, listeners[cut])
            BY <2>2 DEF ListensInTurn
        <3> QED
            BY <1>1, <2>1, <3>1, BeforeIsStrict
    <2> QED
        BY <2>1, <2>2
<1> QED
    BY <1>1, <1>3, <1>4, <1>5

LEMMA LogKeepsFeed ==
    ASSUME AuditTypeOK, FeedIInv,
           NEW s \in Session, NEW by \in Actor, NEW cut \in Cuts(s), Log(s, by, cut)
    PROVE  FeedIInv'
<1> DEFINE g == Len(globalEntries) + 1
           lost == IF cut = NoThrow THEN {} ELSE {<<g, listeners[cut]>>}
<1>0. RegisteredOnce /\ ListensInTurn /\ FeedIsOfThePast /\ FeedMissesOnlyAborted
    BY DEF FeedIInv
<1>1. /\ globalEntries \in Seq(Entry) /\ Len(globalEntries) \in Nat
      /\ DOMAIN globalEntries = 1 .. Len(globalEntries)
    BY FeedTypes
<1>2. PICK e : e = [session |-> s, by |-> by, n |-> Len(local[s]) + 1]
    OBVIOUS
<1>3. e \in Entry /\ e.session = s
    <2>1. Len(local[s]) \in Nat
        BY DEF AuditTypeOK
    <2> QED
        BY <1>2, <2>1 DEF Entry
<1>4. /\ globalEntries' = Append(globalEntries, e) /\ aborted' = aborted \cup lost
      /\ UNCHANGED <<listeners, registered>>
    BY <1>2 DEF Log, Deliver
<1>5. /\ Len(globalEntries') = g /\ DOMAIN globalEntries' = 1 .. g
      /\ globalEntries'[g] = e
      /\ \A h \in 1 .. Len(globalEntries) : globalEntries'[h] = globalEntries[h]
    BY <1>1, <1>3, <1>4
<1>6. ASSUME NEW c \in Client
      PROVE  /\ feed'[c].state = feed[c].state /\ feed'[c].filter = feed[c].filter
             /\ feed'[c].from = feed[c].from /\ feed'[c].until = feed[c].until
             /\ feed'[c].got = IF c \in Reached(s, cut) THEN Append(feed[c].got, g) ELSE feed[c].got
    <2>1. feed'[c] = IF c \in Reached(s, cut) THEN [feed[c] EXCEPT !.got = Append(@, g)] ELSE feed[c]
        BY DEF Log, Deliver
    <2>2. feed[c] \in Feed
        BY FeedTypes
    <2> QED
        BY <2>1, <2>2 DEF Feed
<1>7. \A c, d \in Client : Before(c, d)' = Before(c, d)
    BY <1>4 DEF Before
<1>8. RegisteredOnce'
    BY <1>0, <1>4, <1>6 DEF RegisteredOnce
<1>9. ListensInTurn'
    <2>1. \A i, j \in DOMAIN listeners' : i < j => Before(listeners[i], listeners[j])'
        BY <1>0, <1>4 DEF ListensInTurn, Before
    <2> QED
        BY <1>0, <1>4, <1>6, <2>1 DEF ListensInTurn
<1>10. FeedIsOfThePast'
    <2>1. ASSUME NEW c \in Client
          PROVE  /\ feed'[c].from <= Len(globalEntries') /\ feed'[c].until <= Len(globalEntries')
                 /\ feed'[c].state = "none" => feed'[c].got = <<>>
        <3>1. feed[c].state = "none" => c \notin Reached(s, cut)
            BY DEF Reached
        <3>2. feed[c].from \in Nat /\ feed[c].until \in Nat
            BY FeedTypes
        <3> QED
            BY <1>0, <1>1, <1>5, <1>6, <3>1, <3>2 DEF FeedIsOfThePast
    <2>2. \A x \in aborted' : x[1] \in DOMAIN globalEntries'
        BY <1>0, <1>1, <1>4, <1>5 DEF FeedIsOfThePast
    <2> QED
        BY <2>1, <2>2 DEF FeedIsOfThePast
<1>11. ASSUME NEW c \in Client, feed[c].state # "none"
       PROVE  Increasing(c)' /\ Sent(c)' = Due(c)'
    <2>1. /\ feed[c].from \in Nat /\ feed[c].until \in Nat
          /\ feed[c].from <= Len(globalEntries) /\ feed[c].until <= Len(globalEntries)
          /\ feed[c].got \in Seq(Nat \ {0}) /\ DOMAIN feed[c].got = 1 .. Len(feed[c].got)
          /\ Len(feed[c].got) \in Nat
        BY <1>0, FeedTypes DEF FeedIsOfThePast
    <2>2. Window(c) \subseteq 1 .. Len(globalEntries)
        BY <1>1, <2>1 DEF Window
    <2>3. Increasing(c) /\ Sent(c) = Due(c)
        BY <1>0, <1>11, FeedMeans
    <2>4. \A h \in 1 .. Len(globalEntries), d \in Client : <<h, d>> \in aborted' <=> <<h, d>> \in aborted
        BY <1>1, <1>4
    <2>5. \A d \in Client : <<g, d>> \in aborted' <=> cut # NoThrow /\ d = listeners[cut]
        <3>1. \A d \in Client : <<g, d>> \notin aborted
            BY <1>0, <1>1 DEF FeedIsOfThePast
        <3> QED
            BY <1>4, <3>1
    <2>6. Window(c)' = IF feed[c].state = "open" THEN Window(c) \cup {g} ELSE Window(c)
        <3>1. CASE feed[c].state = "open"
            <4>1. Window(c)' = (feed[c].from + 1) .. g /\ Window(c) = (feed[c].from + 1) .. Len(globalEntries)
                BY <1>5, <1>6, <3>1 DEF Window
            <4> QED
                BY <1>1, <2>1, <3>1, <4>1
        <3>2. CASE feed[c].state # "open"
            BY <1>6, <3>2 DEF Window
        <3> QED
            BY <3>1, <3>2
    <2>7. \A h \in Window(c) : h \in Due(c)' <=> h \in Due(c)
        <3> SUFFICES ASSUME NEW h \in Window(c) PROVE h \in Due(c)' <=> h \in Due(c)
            OBVIOUS
        <3>1. h \in 1 .. Len(globalEntries) /\ h \in Window(c)'
            BY <2>2, <2>6
        <3>2. globalEntries'[h] = globalEntries[h]
            BY <1>5, <3>1
        <3>3. \A d \in Client : (<<h, d>> \in aborted /\ Before(d, c))' <=> <<h, d>> \in aborted /\ Before(d, c)
            BY <1>7, <2>4, <3>1
        <3> QED
            BY <1>6, <3>1, <3>2, <3>3 DEF Due, Passes
    <2>8. CASE c \in Reached(s, cut)
        <3>1. feed[c].state = "open" /\ Passes(feed[c].filter, s)
              /\ \E i \in DOMAIN listeners : i < cut /\ listeners[i] = c
            BY <2>8 DEF Reached
        <3>2. cut # NoThrow => ~ Before(listeners[cut], c)
            BY <1>0, <3>1, CutSeparates DEF Cuts
        <3>3. g \in Due(c)'
            <4>1. g \in Window(c)'
                BY <2>6, <3>1
            <4>2. ~ \E d \in Client : <<g, d>> \in aborted' /\ Before(d, c)'
                BY <1>7, <2>5, <3>2
            <4> QED
                BY <1>3, <1>5, <1>6, <3>1, <4>1, <4>2 DEF Due, Passes
        <3>4. Due(c)' = Due(c) \cup {g}
            BY <2>6, <2>7, <3>1, <3>3 DEF Due
        <3>5. feed'[c].got = Append(feed[c].got, g)
            BY <1>6, <2>8
        <3>6. /\ DOMAIN feed'[c].got = 1 .. Len(feed[c].got) + 1
              /\ feed'[c].got[Len(feed[c].got) + 1] = g
              /\ \A i \in 1 .. Len(feed[c].got) : feed'[c].got[i] = feed[c].got[i]
            BY <1>1, <2>1, <3>5
        <3>7. Sent(c)' = Sent(c) \cup {g}
            <4> DEFINE n == Len(feed[c].got)
            <4>1. Sent(c)' = {feed'[c].got[i] : i \in 1 .. n + 1} /\ Sent(c) = {feed[c].got[i] : i \in 1 .. n}
                BY <2>1, <3>6 DEF Sent
            <4>2. 1 .. n + 1 = (1 .. n) \cup {n + 1} /\ n + 1 \notin 1 .. n
                BY <2>1
            <4> HIDE DEF n
            <4> QED
                BY <3>6, <4>1, <4>2 DEF n
        <3>8. \A i \in 1 .. Len(feed[c].got) : feed[c].got[i] \in Nat /\ feed[c].got[i] < g
            <4>1. Due(c) \subseteq 1 .. Len(globalEntries)
                BY <2>2 DEF Due
            <4>2. \A i \in 1 .. Len(feed[c].got) : feed[c].got[i] \in Sent(c)
                BY <2>1 DEF Sent
            <4> QED
                BY <1>1, <2>3, <4>1, <4>2
        <3>9. Increasing(c)'
            <4> SUFFICES ASSUME NEW i \in DOMAIN feed'[c].got, NEW j \in DOMAIN feed'[c].got, i < j
                         PROVE  feed'[c].got[i] < feed'[c].got[j]
                BY DEF Increasing
            <4>1. i \in 1 .. Len(feed[c].got) /\ feed'[c].got[i] = feed[c].got[i]
                BY <2>1, <3>6
            <4>2. CASE j = Len(feed[c].got) + 1
                BY <3>6, <3>8, <4>1, <4>2
            <4>3. CASE j \in 1 .. Len(feed[c].got)
                BY <2>1, <2>3, <3>6, <4>1, <4>3 DEF Increasing
            <4>4. j = Len(feed[c].got) + 1 \/ j \in 1 .. Len(feed[c].got)
                BY <2>1, <3>6
            <4> QED
                BY <4>2, <4>3, <4>4
        <3> QED
            BY <2>3, <3>4, <3>7, <3>9
    <2>9. CASE c \notin Reached(s, cut)
        <3>1. feed'[c].got = feed[c].got
            BY <1>6, <2>9
        <3>2. Increasing(c)' /\ Sent(c)' = Sent(c)
            BY <2>3, <3>1 DEF Increasing, Sent
        <3>3. g \notin Due(c)'
            <4> SUFFICES ASSUME g \in Due(c)' PROVE FALSE
                OBVIOUS
            <4>1. feed[c].state = "open"
                BY <1>1, <2>2, <2>6 DEF Due
            <4>2. Passes(feed[c].filter, s) /\ ~ \E d \in Client : <<g, d>> \in aborted' /\ Before(d, c)'
                BY <1>3, <1>5, <1>6 DEF Due, Passes
            <4>3. ~ \E i \in DOMAIN listeners : i < cut /\ listeners[i] = c
                BY <2>9, <4>1, <4>2 DEF Reached
            <4>4. CASE cut = NoThrow
                <5>1. \E i \in DOMAIN listeners : listeners[i] = c
                    BY <1>0, <4>1 DEF ListensInTurn
                <5> QED
                    BY <4>3, <4>4, <5>1, FeedTypes DEF NoThrow
            <4>5. CASE cut # NoThrow
                <5>1. cut \in DOMAIN listeners /\ feed[listeners[cut]].state = "gone" /\ listeners[cut] \in Client
                    BY <4>5, FeedTypes DEF Cuts
                <5>2. Before(listeners[cut], c)
                    BY <1>0, <4>1, <4>3, <5>1, CutSeparates
                <5> QED
                    BY <1>7, <2>5, <4>2, <4>5, <5>1, <5>2
            <4> QED
                BY <4>4, <4>5
        <3>4. Due(c)' = Due(c)
            BY <2>6, <2>7, <3>3 DEF Due
        <3> QED
            BY <2>3, <3>2, <3>4
    <2> QED
        BY <2>8, <2>9
<1>12. FeedMissesOnlyAborted'
    <2>1. \A c \in Client : feed'[c].state # "none" => Increasing(c)' /\ Sent(c)' = Due(c)'
        BY <1>6, <1>11
    <2> QED
        BY <2>1, Zenon DEF FeedMissesOnlyAborted, Increasing, Sent, Due
<1> QED
    BY <1>8, <1>9, <1>10, <1>12 DEF FeedIInv

\* The steps that do not log leave what was due as it was.
LEMMA QuietKeepsFeed ==
    ASSUME AuditTypeOK, FeedIInv, UNCHANGED <<globalEntries, aborted>>,
           RegisteredOnce', ListensInTurn',
           \A c, d \in Client : feed[d].state # "none" => (Before(c, d)' <=> Before(c, d)),
           \A c \in Client : \/ feed'[c] = feed[c]
                             \/ /\ feed[c].state = "none" /\ feed'[c].state = "open"
                                /\ feed'[c].from = Len(globalEntries) /\ feed'[c].until = feed[c].until
                                /\ feed'[c].got = feed[c].got
                             \/ /\ feed[c].state = "open" /\ feed'[c].state = "gone"
                                /\ feed'[c].from = feed[c].from /\ feed'[c].filter = feed[c].filter
                                /\ feed'[c].until = Len(globalEntries) /\ feed'[c].got = feed[c].got
                             \/ /\ feed[c].state = "gone" /\ feed'[c].state = "closed"
                                /\ feed'[c].from = feed[c].from /\ feed'[c].filter = feed[c].filter
                                /\ feed'[c].until = feed[c].until /\ feed'[c].got = feed[c].got
    PROVE  FeedIInv'
<1>1. FeedIsOfThePast /\ FeedMissesOnlyAborted /\ Len(globalEntries) \in Nat
    BY FeedTypes DEF FeedIInv
<1>2. FeedIsOfThePast'
    <2>1. ASSUME NEW c \in Client
          PROVE  /\ feed'[c].from <= Len(globalEntries) /\ feed'[c].until <= Len(globalEntries)
                 /\ feed'[c].state = "none" => feed'[c].got = <<>>
        BY <1>1 DEF FeedIsOfThePast
    <2> QED
        BY <1>1, <2>1 DEF FeedIsOfThePast
<1>3. ASSUME NEW c \in Client, feed'[c].state # "none"
      PROVE  Increasing(c)' /\ Sent(c)' = Due(c)'
    <2>1. feed'[c].got = feed[c].got
        OBVIOUS
    <2>2. CASE feed[c].state = "none"
        <3>1. feed[c].got = <<>> /\ feed'[c].state = "open" /\ feed'[c].from = Len(globalEntries)
            BY <1>1, <1>3, <2>2 DEF FeedIsOfThePast
        <3>2. Window(c)' = {}
            BY <1>1, <3>1 DEF Window
        <3> QED
            BY <2>1, <3>1, <3>2 DEF Increasing, Sent, Due
    <2>3. CASE feed[c].state # "none"
        <3>1. Increasing(c) /\ Sent(c) = Due(c)
            BY <1>1, <2>3, FeedMeans
        <3>2. Increasing(c)' /\ Sent(c)' = Sent(c)
            BY <2>1, <3>1 DEF Increasing, Sent
        <3>3. Window(c)' = Window(c) /\ feed'[c].filter = feed[c].filter
            BY <2>3 DEF Window
        <3>4. \A d \in Client : Before(d, c)' <=> Before(d, c)
            BY <2>3
        <3>5. Due(c)' = Due(c)
            BY <3>3, <3>4 DEF Due
        <3> QED
            BY <3>1, <3>2, <3>5
    <2> QED
        BY <2>2, <2>3
<1>4. FeedMissesOnlyAborted'
    BY <1>3, Zenon DEF FeedMissesOnlyAborted, Increasing, Sent, Due
<1> QED
    BY <1>2, <1>4 DEF FeedIInv

LEMMA ConnectKeepsFeed ==
    ASSUME AuditTypeOK, FeedIInv, NEW c \in Client, NEW f \in Filter, Connect(c, f)
    PROVE  FeedIInv'
<1> DEFINE r == Len(registered)
           l == Len(listeners)
<1>0. RegisteredOnce /\ ListensInTurn
    BY DEF FeedIInv
<1>1. /\ feed[c].state = "none" /\ feed'[c].state = "open" /\ feed'[c].from = Len(globalEntries)
      /\ feed'[c].until = feed[c].until /\ feed'[c].got = feed[c].got
      /\ \A d \in Client : d # c => feed'[d] = feed[d]
    <2>1. feed[c] \in Feed /\ feed \in [Client -> Feed]
        BY FeedTypes DEF AuditTypeOK
    <2>2. feed' = [feed EXCEPT ![c] = [feed[c] EXCEPT !.state = "open", !.filter = f, !.from = Len(globalEntries)]]
        BY DEF Connect
    <2>3. feed'[c] = [feed[c] EXCEPT !.state = "open", !.filter = f, !.from = Len(globalEntries)]
        BY <2>1, <2>2
    <2> QED
        BY <2>1, <2>2, <2>3 DEF Connect, Feed
<1>2. /\ r \in Nat /\ l \in Nat /\ DOMAIN registered = 1 .. r /\ DOMAIN listeners = 1 .. l
      /\ DOMAIN registered' = 1 .. r + 1 /\ registered'[r + 1] = c
      /\ \A i \in 1 .. r : registered'[i] = registered[i]
      /\ DOMAIN listeners' = 1 .. l + 1 /\ listeners'[l + 1] = c
      /\ \A i \in 1 .. l : listeners'[i] = listeners[i]
    BY FeedTypes DEF Connect
<1>3. \A i \in 1 .. r : registered[i] # c
    BY <1>0, <1>1, <1>2 DEF RegisteredOnce
<1>4. RegisteredOnce'
    <2>1. ASSUME NEW i \in 1 .. r + 1, NEW j \in 1 .. r + 1, registered'[i] = registered'[j]
          PROVE  i = j
        <3>1. CASE i \in 1 .. r /\ j \in 1 .. r
            BY <1>0, <1>2, <2>1, <3>1 DEF RegisteredOnce
        <3>2. CASE i = r + 1 \/ j = r + 1
            BY <1>2, <1>3, <2>1, <3>2
        <3> QED
            BY <1>2, <3>1, <3>2
    <2>2. ASSUME NEW d \in Client
          PROVE  feed'[d].state # "none" <=> \E i \in 1 .. r + 1 : registered'[i] = d
        <3>1. CASE d = c
            BY <1>1, <1>2, <3>1
        <3>2. CASE d # c
            <4>1. feed'[d].state # "none" <=> \E i \in 1 .. r : registered[i] = d
                BY <1>0, <1>1, <1>2, <3>2 DEF RegisteredOnce
            <4>2. \A i \in 1 .. r + 1 : i # r + 1 => i \in 1 .. r
                BY <1>2
            <4>3. 1 .. r \subseteq 1 .. r + 1
                BY <1>2
            <4> QED
                BY <1>2, <3>2, <4>1, <4>2, <4>3
        <3> QED
            BY <3>1, <3>2
    <2> QED
        BY <1>2, <2>1, <2>2 DEF RegisteredOnce
<1>5. \A d, e \in Client : feed[e].state # "none" => (Before(d, e)' <=> Before(d, e))
    <2> SUFFICES ASSUME NEW d \in Client, NEW e \in Client, feed[e].state # "none"
                 PROVE  Before(d, e)' <=> Before(d, e)
        OBVIOUS
    <2>1. e # c
        BY <1>1
    <2>2. ASSUME Before(d, e)'
          PROVE  Before(d, e)
        <3>1. PICK i \in 1 .. r + 1, j \in 1 .. r + 1 : i < j /\ registered'[i] = d /\ registered'[j] = e
            BY <1>2, <2>2 DEF Before
        <3>2. i \in 1 .. r /\ j \in 1 .. r
            BY <1>2, <2>1, <3>1
        <3> QED
            BY <1>2, <3>1, <3>2 DEF Before
    <2>3. ASSUME Before(d, e)
          PROVE  Before(d, e)'
        <3>1. PICK i \in 1 .. r, j \in 1 .. r : i < j /\ registered[i] = d /\ registered[j] = e
            BY <1>2, <2>3 DEF Before
        <3>2. i \in 1 .. r + 1 /\ j \in 1 .. r + 1
            BY <1>2
        <3> QED
            BY <1>2, <3>1, <3>2 DEF Before
    <2> QED
        BY <2>2, <2>3
<1>6. ListensInTurn'
    <2>1. ASSUME NEW i \in 1 .. l + 1, NEW j \in 1 .. l + 1, i < j
          PROVE  Before(listeners[i], listeners[j])'
        <3>1. i \in 1 .. l /\ listeners'[i] = listeners[i] /\ listeners[i] \in Client
            BY <1>2, <2>1, FeedTypes
        <3>2. feed[listeners[i]].state # "none"
            BY <1>0, <1>2, <3>1 DEF ListensInTurn
        <3>3. CASE j \in 1 .. l
            <4>1. listeners'[j] = listeners[j] /\ listeners[j] \in Client
                BY <1>2, <3>3, FeedTypes
            <4>2. feed[listeners[j]].state # "none" /\ Before(listeners[i], listeners[j])
                BY <1>0, <1>2, <2>1, <3>1, <3>3, <4>1 DEF ListensInTurn
            <4>3. \E x, y \in DOMAIN registered' :
                        x < y /\ registered'[x] = listeners[i] /\ registered'[y] = listeners[j]
                BY <1>5, <3>1, <4>1, <4>2 DEF Before
            <4> QED
                BY <3>1, <4>1, <4>3 DEF Before
        <3>4. CASE j = l + 1
            <4>1. PICK k \in 1 .. r : registered[k] = listeners[i]
                BY <1>0, <1>2, <3>1, <3>2 DEF RegisteredOnce
            <4>2. k \in 1 .. r + 1 /\ r + 1 \in 1 .. r + 1 /\ k < r + 1
                BY <1>2
            <4> QED
                BY <1>2, <3>1, <3>4, <4>1, <4>2 DEF Before
        <3> QED
            BY <1>2, <3>3, <3>4
    <2>2. ASSUME NEW d \in Client
          PROVE  feed'[d].state \in {"open", "gone"} <=> \E i \in 1 .. l + 1 : listeners'[i] = d
        <3>1. CASE d = c
            BY <1>1, <1>2, <3>1
        <3>2. CASE d # c
            <4>1. feed'[d].state \in {"open", "gone"} <=> \E i \in 1 .. l : listeners[i] = d
                BY <1>0, <1>1, <1>2, <3>2 DEF ListensInTurn
            <4>2. \A i \in 1 .. l + 1 : i # l + 1 => i \in 1 .. l
                BY <1>2
            <4>3. 1 .. l \subseteq 1 .. l + 1
                BY <1>2
            <4> QED
                BY <1>2, <3>2, <4>1, <4>2, <4>3
        <3> QED
            BY <3>1, <3>2
    <2> QED
        BY <1>2, <2>1, <2>2 DEF ListensInTurn
<1>7. UNCHANGED <<globalEntries, aborted>>
    BY DEF Connect
<1> QED
    BY <1>1, <1>4, <1>5, <1>6, <1>7, QuietKeepsFeed

\* A step of one client that is registered already.
LEMMA OneFeedChanges ==
    ASSUME AuditTypeOK, NEW c \in Client, NEW d \in Feed, feed' = [feed EXCEPT ![c] = d]
    PROVE  feed'[c] = d /\ \A e \in Client : e # c => feed'[e] = feed[e]
    BY DEF AuditTypeOK

LEMMA DisconnectKeepsFeed ==
    ASSUME AuditTypeOK, FeedIInv, NEW c \in Client, Disconnect(c)
    PROVE  FeedIInv'
<1> DEFINE d == [feed[c] EXCEPT !.state = "gone", !.until = Len(globalEntries)]
<1>1. feed[c] \in Feed /\ Len(globalEntries) \in Nat
    BY FeedTypes
<1>2. /\ d \in Feed /\ d.state = "gone" /\ d.until = Len(globalEntries)
      /\ d.from = feed[c].from /\ d.filter = feed[c].filter /\ d.got = feed[c].got
    BY <1>1 DEF Feed
<1>3. feed' = [feed EXCEPT ![c] = d] /\ feed[c].state = "open"
    BY DEF Disconnect
<1> HIDE DEF d
<1>4. feed'[c] = d /\ \A e \in Client : e # c => feed'[e] = feed[e]
    BY <1>2, <1>3, OneFeedChanges
<1>5. UNCHANGED <<globalEntries, aborted, registered, listeners>>
    BY DEF Disconnect
<1>6. RegisteredOnce' /\ ListensInTurn'
    <2>1. RegisteredOnce'
        BY <1>2, <1>3, <1>4, <1>5 DEF FeedIInv, RegisteredOnce
    <2>2. ListensInTurn'
        BY <1>2, <1>3, <1>4, <1>5 DEF FeedIInv, ListensInTurn, Before
    <2> QED
        BY <2>1, <2>2
<1>7. \A a, e \in Client : Before(a, e)' <=> Before(a, e)
    BY <1>5 DEF Before
<1> QED
    BY <1>2, <1>3, <1>4, <1>5, <1>6, <1>7, QuietKeepsFeed

LEMMA CleanupKeepsFeed ==
    ASSUME AuditTypeOK, FeedIInv, NEW c \in Client, Cleanup(c)
    PROVE  FeedIInv'
<1> DEFINE d == [feed[c] EXCEPT !.state = "closed"]
           l == Len(listeners)
<1>0. RegisteredOnce /\ ListensInTurn
    BY DEF FeedIInv
<1>1. feed[c] \in Feed
    BY FeedTypes
<1>2. /\ d \in Feed /\ d.state = "closed" /\ d.until = feed[c].until
      /\ d.from = feed[c].from /\ d.filter = feed[c].filter /\ d.got = feed[c].got
    BY <1>1 DEF Feed
<1>3. feed' = [feed EXCEPT ![c] = d] /\ feed[c].state = "gone"
    BY DEF Cleanup
<1> HIDE DEF d
<1>4. feed'[c] = d /\ \A e \in Client : e # c => feed'[e] = feed[e]
    BY <1>2, <1>3, OneFeedChanges
<1>5. UNCHANGED <<globalEntries, aborted, registered>>
    BY DEF Cleanup
<1>6. PICK n \in 1 .. l : /\ listeners[n] = c
                          /\ listeners' = SubSeq(listeners, 1, n - 1) \o SubSeq(listeners, n + 1, l)
    BY FeedTypes DEF Cleanup
<1> DEFINE old(i) == IF i < n THEN i ELSE i + 1
<1>7. l \in Nat /\ DOMAIN listeners = 1 .. l /\ listeners \in Seq(Client)
    BY FeedTypes
<1>8. DOMAIN listeners' = 1 .. l - 1 /\ \A i \in 1 .. l - 1 : listeners'[i] = listeners[old(i)]
    <2> DEFINE front == SubSeq(listeners, 1, n - 1)
               back == SubSeq(listeners, n + 1, l)
    <2>1. n \in Nat /\ 1 <= n /\ n <= l /\ l \in Nat
        BY <1>6, <1>7
    <2>2. front \in Seq(Client) /\ Len(front) = n - 1 /\ \A i \in 1 .. n - 1 : front[i] = listeners[i]
        <3>1. \A i \in 1 .. n - 1 : listeners[i] \in Client
            BY <1>7, <2>1
        <3>2. \A i \in 1 .. (n - 1) - 1 + 1 : front[i] = listeners[1 + i - 1]
            BY <2>1, <3>1, SubSeqProperties
        <3>3. front \in Seq(Client) /\ Len(front) = IF 1 <= n - 1 THEN (n - 1) - 1 + 1 ELSE 0
            BY <2>1, <3>1, SubSeqProperties
        <3> HIDE DEF front
        <3> QED
            BY <2>1, <3>2, <3>3
    <2>3. back \in Seq(Client) /\ Len(back) = l - n /\ \A i \in 1 .. l - n : back[i] = listeners[i + n]
        <3>1. \A i \in n + 1 .. l : listeners[i] \in Client
            BY <1>7, <2>1
        <3>2. \A i \in 1 .. l - (n + 1) + 1 : back[i] = listeners[(n + 1) + i - 1]
            BY <2>1, <3>1, SubSeqProperties
        <3>3. back \in Seq(Client) /\ Len(back) = IF n + 1 <= l THEN l - (n + 1) + 1 ELSE 0
            BY <2>1, <3>1, SubSeqProperties
        <3> HIDE DEF back
        <3> QED
            BY <2>1, <3>2, <3>3
    <2> HIDE DEF front, back
    <2>4. listeners' = front \o back
        BY <1>6 DEF front, back
    <2>5. DOMAIN listeners' = 1 .. l - 1
        BY <2>1, <2>2, <2>3, <2>4
    <2>6. ASSUME NEW i \in 1 .. l - 1 PROVE listeners'[i] = listeners[old(i)]
        <3>1. CASE i < n
            <4>1. listeners'[i] = front[i] /\ i \in 1 .. n - 1
                BY <2>1, <2>2, <2>3, <2>4, <3>1
            <4> QED
                BY <2>2, <3>1, <4>1
        <3>2. CASE ~ i < n
            <4>1. listeners'[i] = back[i - (n - 1)] /\ i - (n - 1) \in 1 .. l - n
                BY <2>1, <2>2, <2>3, <2>4, <3>2
            <4>2. i - (n - 1) + n = i + 1
                BY <2>1
            <4> QED
                BY <2>3, <3>2, <4>1, <4>2
        <3> QED
            BY <3>1, <3>2
    <2> QED
        BY <2>5, <2>6
<1>9. /\ \A i \in 1 .. l - 1 : old(i) \in 1 .. l /\ old(i) # n
      /\ \A i, j \in 1 .. l - 1 : i < j => old(i) < old(j)
    BY <1>6, <1>7
<1>10. \A k \in 1 .. l : k # n => \E i \in 1 .. l - 1 : old(i) = k
    <2> SUFFICES ASSUME NEW k \in 1 .. l, k # n PROVE \E i \in 1 .. l - 1 : old(i) = k
        OBVIOUS
    <2>1. CASE k < n
        <3>1. k \in 1 .. l - 1 /\ old(k) = k
            BY <1>6, <1>7, <2>1
        <3> QED
            BY <3>1
    <2>2. CASE n < k
        <3>1. k - 1 \in 1 .. l - 1 /\ old(k - 1) = k
            BY <1>6, <1>7, <2>2
        <3> QED
            BY <3>1
    <2> QED
        BY <1>6, <1>7, <2>1, <2>2
<1>11. \A k \in 1 .. l : listeners[k] = c => k = n
    <2> SUFFICES ASSUME NEW k \in 1 .. l, listeners[k] = c, k # n PROVE FALSE
        OBVIOUS
    <2>1. CASE k < n
        BY <1>0, <1>6, <1>7, <2>1, BeforeIsStrict DEF ListensInTurn
    <2>2. CASE n < k
        BY <1>0, <1>6, <1>7, <2>2, BeforeIsStrict DEF ListensInTurn
    <2> QED
        BY <1>6, <1>7, <2>1, <2>2
<1>12. RegisteredOnce'
    BY <1>2, <1>3, <1>4, <1>5 DEF FeedIInv, RegisteredOnce
<1> HIDE DEF old
<1>13. ListensInTurn'
    <2>1. ASSUME NEW i \in 1 .. l - 1, NEW j \in 1 .. l - 1, i < j
          PROVE  Before(listeners[i], listeners[j])'
        <3>1. Before(listeners[old(i)], listeners[old(j)])
            BY <1>0, <1>7, <1>9, <2>1 DEF ListensInTurn
        <3> QED
            BY <1>5, <1>8, <2>1, <3>1 DEF Before
    <2>2. ASSUME NEW e \in Client
          PROVE  feed'[e].state \in {"open", "gone"} <=> \E i \in 1 .. l - 1 : listeners'[i] = e
        <3>1. CASE e = c
            <4>1. \A i \in 1 .. l - 1 : listeners'[i] # c
                BY <1>8, <1>9, <1>11
            <4> QED
                BY <1>2, <1>4, <3>1, <4>1
        <3>2. CASE e # c
            <4>1. feed'[e].state \in {"open", "gone"} <=> \E k \in 1 .. l : listeners[k] = e
                BY <1>0, <1>4, <1>7, <3>2 DEF ListensInTurn
            <4>2. (\E k \in 1 .. l : listeners[k] = e) <=> \E i \in 1 .. l - 1 : listeners[old(i)] = e
                BY <1>6, <1>9, <1>10, <3>2
            <4> QED
                BY <1>8, <4>1, <4>2
        <3> QED
            BY <3>1, <3>2
    <2> QED
        BY <1>8, <2>1, <2>2 DEF ListensInTurn
<1>14. \A a, e \in Client : Before(a, e)' <=> Before(a, e)
    BY <1>5 DEF Before
<1> QED
    BY <1>2, <1>3, <1>4, <1>5, <1>12, <1>13, <1>14, QuietKeepsFeed

LEMMA NextFeedIInv == AuditTypeOK /\ FeedIInv /\ [AuditNext]_auditVars => FeedIInv'
<1> SUFFICES ASSUME AuditTypeOK, FeedIInv, [AuditNext]_auditVars PROVE FeedIInv'
    OBVIOUS
<1>1. ASSUME UNCHANGED <<globalEntries, listeners, feed, aborted, registered>>
      PROVE  FeedIInv'
    <2>1. RegisteredOnce' /\ ListensInTurn'
        BY <1>1 DEF FeedIInv, RegisteredOnce, ListensInTurn, Before
    <2>2. \A a, e \in Client : Before(a, e)' <=> Before(a, e)
        BY <1>1 DEF Before
    <2> QED
        BY <1>1, <2>1, <2>2, QuietKeepsFeed
<1>2. ASSUME NEW p \in Reader, NEW f \in Filter, StartPaging(p, f) \/ QueryPage(p)
      PROVE  FeedIInv'
    BY <1>1, <1>2 DEF StartPaging, QueryPage
<1>3. CASE UNCHANGED auditVars
    BY <1>1, <1>3 DEF auditVars
<1>4. CASE \E p \in Reader : QueryPage(p)
    BY <1>1, <1>4 DEF QueryPage
<1> QED
    BY <1>2, <1>3, <1>4, LogKeepsFeed, ConnectKeepsFeed, DisconnectKeepsFeed, CleanupKeepsFeed DEF AuditNext

LEMMA InitFeedIInv == AuditInit => FeedIInv
<1> SUFFICES ASSUME AuditInit PROVE FeedIInv
    OBVIOUS
<1>1. \A c \in Client : feed[c].state = "none" /\ feed[c].from = 0 /\ feed[c].until = 0 /\ feed[c].got = <<>>
    BY DEF AuditInit
<1>2. globalEntries = <<>> /\ listeners = <<>> /\ registered = <<>> /\ aborted = {}
    BY DEF AuditInit
<1> QED
    BY <1>1, <1>2 DEF FeedIInv, RegisteredOnce, ListensInTurn, FeedIsOfThePast, FeedMissesOnlyAborted

\* Whatever other subscribers come, go and fail, a subscriber is sent what its
\* filter lets through while it is connected, in order and once, less the
\* entries a failing write of an earlier subscriber ended (serve.ts, emit()).
THEOREM TrailFeedMissesOnlyAborted == AuditSpec => []FeedMissesOnlyAborted
<1>1. FeedIInv => FeedMissesOnlyAborted
    BY DEF FeedIInv
<1> QED
    BY <1>1, TrailTyped, InitFeedIInv, NextFeedIInv, PTL DEF AuditSpec

----------------------------------------------------------------------------
(* Paging.                                                                 *)

LEMMA PagerTypes ==
    ASSUME AuditTypeOK, NEW p \in Reader
    PROVE  /\ pager \in [Reader -> Pager] /\ pager[p] \in Pager
           /\ pager[p].offset \in Nat /\ pager[p].base \in Nat /\ pager[p].filter \in Filter
           /\ Len(globalEntries) \in Nat /\ DOMAIN globalEntries = 1 .. Len(globalEntries)
    BY DEF AuditTypeOK, Pager

\* The newest matching entry has rank 1, the oldest the number of them.
LEMMA RankBounds ==
    ASSUME AuditTypeOK, NEW f
    PROVE  /\ IsFiniteSet(Matching(f)) /\ Cardinality(Matching(f)) \in Nat
           /\ \A g \in Matching(f) : /\ Rank(f, g) \in Nat
                                     /\ 1 <= Rank(f, g) /\ Rank(f, g) <= Cardinality(Matching(f))
<1> DEFINE L == Len(globalEntries)
<1>1. L \in Nat /\ DOMAIN globalEntries = 1 .. L
    BY DEF AuditTypeOK
<1>2. IsFiniteSet(1 .. L)
    BY <1>1, FS_Interval
<1>3. Matching(f) \in SUBSET (1 .. L)
    BY <1>1 DEF Matching
<1>4. IsFiniteSet(Matching(f))
    BY <1>2, <1>3, FS_Subset
<1>5. ASSUME NEW g \in Matching(f)
      PROVE  Rank(f, g) \in Nat /\ 1 <= Rank(f, g) /\ Rank(f, g) <= Cardinality(Matching(f))
    <2> DEFINE R == {h \in Matching(f) : h >= g}
    <2>1. R \in SUBSET Matching(f)
        OBVIOUS
    <2>2. IsFiniteSet(R) /\ Cardinality(R) <= Cardinality(Matching(f))
        BY <1>4, <2>1, FS_Subset
    <2>3. g \in R
        BY <1>3
    <2>4. Cardinality(R) \in Nat /\ Cardinality(R) # 0
        BY <2>2, <2>3, FS_CardinalityType, FS_EmptySet
    <2>5. Rank(f, g) = Cardinality(R)
        BY DEF Rank
    <2> HIDE DEF R
    <2> QED
        BY <2>2, <2>4, <2>5
<1> QED
    BY <1>4, <1>5, FS_CardinalityType

\* An entry that is logged matches or not; those there are keep matching, and
\* move back if at all.
LEMMA LogMovesBack ==
    ASSUME AuditTypeOK, AuditTypeOK', NEW e, globalEntries' = Append(globalEntries, e), NEW f
    PROVE  \A g \in Matching(f)' : g <= Len(globalEntries) =>
               g \in Matching(f) /\ Rank(f, g) <= Rank(f, g)'
<1> DEFINE L == Len(globalEntries)
<1>1. /\ L \in Nat /\ DOMAIN globalEntries = 1 .. L /\ DOMAIN globalEntries' = 1 .. L + 1
      /\ \A h \in 1 .. L : globalEntries'[h] = globalEntries[h]
    BY DEF AuditTypeOK
<1>2. Matching(f) \subseteq Matching(f)'
    BY <1>1 DEF Matching, Passes
<1>3. ASSUME NEW g \in Matching(f)', g <= L
      PROVE  g \in Matching(f) /\ Rank(f, g) <= Rank(f, g)'
    <2>1. g \in Matching(f)
        BY <1>1, <1>3 DEF Matching, Passes
    <2> DEFINE R == {h \in Matching(f) : h >= g}
               S == {h \in Matching(f)' : h >= g}
    <2>2. IsFiniteSet(Matching(f)')
        <3>1. IsFiniteSet(1 .. L + 1)
            BY <1>1, FS_Interval
        <3>2. Matching(f)' \in SUBSET (1 .. L + 1)
            BY <1>1 DEF Matching
        <3> QED
            BY <3>1, <3>2, FS_Subset
    <2>3. S \in SUBSET Matching(f)' /\ R \in SUBSET S
        BY <1>2
    <2>4. IsFiniteSet(S)
        BY <2>2, <2>3, FS_Subset
    <2>5. Cardinality(R) <= Cardinality(S)
        BY <2>3, <2>4, FS_Subset
    <2>6. Rank(f, g) = Cardinality(R) /\ Rank(f, g)' = Cardinality(S)
        BY DEF Rank
    <2> QED
        BY <2>1, <2>5, <2>6
<1> QED
    BY <1>3

LEMMA LogKeepsPaging ==
    ASSUME AuditTypeOK, AuditTypeOK', PagingIInv, NEW s \in Session, NEW by \in Actor,
           NEW cut \in Cuts(s), Log(s, by, cut)
    PROVE  PagingIInv'
<1>1. pager' = pager /\ \E e : globalEntries' = Append(globalEntries, e)
    BY DEF Log
<1>2. Len(globalEntries) \in Nat /\ Len(globalEntries)' = Len(globalEntries) + 1
    BY <1>1 DEF AuditTypeOK
<1>3. ASSUME NEW p \in Reader, NEW g \in Matching(pager[p].filter)', g <= pager[p].base
      PROVE  /\ g \in Matching(pager[p].filter)
             /\ Rank(pager[p].filter, g) <= Rank(pager[p].filter, g)'
             /\ Rank(pager[p].filter, g) \in Nat /\ Rank(pager[p].filter, g)' \in Nat
    <2>1. pager[p].base <= Len(globalEntries) /\ pager[p].base \in Nat
        BY PagerTypes DEF PagingIInv, PagesOn
    <2>2. g \in Nat
        BY DEF AuditTypeOK, Matching
    <2>3. g <= Len(globalEntries)
        BY <1>2, <1>3, <2>1, <2>2
    <2>4. g \in Matching(pager[p].filter) /\ Rank(pager[p].filter, g) <= Rank(pager[p].filter, g)'
        BY <1>1, <2>3, LogMovesBack
    <2>5. Rank(pager[p].filter, g) \in Nat
        BY <2>4, RankBounds
    <2>6. Rank(pager[p].filter, g)' \in Nat
        <3> DEFINE S == {h \in Matching(pager[p].filter)' : h >= g}
        <3>1. IsFiniteSet(1 .. Len(globalEntries) + 1)
            BY <1>2, FS_Interval
        <3>2. S \in SUBSET (1 .. Len(globalEntries) + 1)
            BY <1>1, <1>2 DEF Matching, AuditTypeOK
        <3>3. IsFiniteSet(S)
            BY <3>1, <3>2, FS_Subset
        <3>4. Cardinality(S) \in Nat
            BY <3>3, FS_CardinalityType
        <3> QED
            BY <1>1, <3>4 DEF Rank
    <2> QED
        BY <2>4, <2>5, <2>6
<1>4. PagesOn'
    <2>1. ASSUME NEW p \in Reader
          PROVE  /\ pager[p].base <= Len(globalEntries)'
                 /\ pager[p].state = "idle" => pager[p].offset = 0
        BY <1>2, PagerTypes DEF PagingIInv, PagesOn
    <2>2. ASSUME NEW p \in Reader, pager[p].state = "paging",
                 NEW g \in Matching(pager[p].filter)', g <= pager[p].base
          PROVE  g \in pager[p].seen \/ pager[p].offset < Rank(pager[p].filter, g)'
        <3>1. g \in pager[p].seen \/ pager[p].offset < Rank(pager[p].filter, g)
            BY <1>3, <2>2 DEF PagingIInv, PagesOn
        <3> QED
            BY <1>3, <2>2, <3>1, PagerTypes
    <2> QED
        BY <1>1, <2>1, <2>2 DEF PagesOn
<1>5. PagingMissesNothing'
    <2>1. ASSUME NEW p \in Reader, pager[p].state = "done",
                 NEW g \in Matching(pager[p].filter)', g <= pager[p].base
          PROVE  g \in pager[p].seen
        BY <1>3, <2>1 DEF PagingIInv, PagingMissesNothing
    <2> QED
        BY <1>1, <2>1 DEF PagingMissesNothing
<1> QED
    BY <1>4, <1>5 DEF PagingIInv

LEMMA StartPagingKeepsPaging ==
    ASSUME AuditTypeOK, PagingIInv, NEW p \in Reader, NEW f \in Filter, StartPaging(p, f)
    PROVE  PagingIInv'
<1> DEFINE q == [pager[p] EXCEPT !.state = "paging", !.filter = f, !.base = Len(globalEntries)]
<1>1. /\ q.state = "paging" /\ q.filter = f /\ q.base = Len(globalEntries)
      /\ q.offset = pager[p].offset /\ q.seen = pager[p].seen
    BY PagerTypes DEF Pager
<1>2. pager' = [pager EXCEPT ![p] = q] /\ pager[p].state = "idle" /\ globalEntries' = globalEntries
    BY DEF StartPaging
<1>3. pager[p].offset = 0
    BY <1>2 DEF PagingIInv, PagesOn
<1> HIDE DEF q
<1>4. pager'[p] = q /\ \A r \in Reader : r # p => pager'[r] = pager[r]
    BY <1>2, PagerTypes
<1>5. \A r : Matching(r)' = Matching(r)
    BY <1>2 DEF Matching, Passes
<1>6. \A r, g : Rank(r, g)' = Rank(r, g)
    BY <1>5 DEF Rank
<1>7. \A g \in Matching(f) : 0 < Rank(f, g)
    <2>1. ASSUME NEW g \in Matching(f) PROVE 0 < Rank(f, g)
        <3>1. Rank(f, g) \in Nat /\ 1 <= Rank(f, g)
            BY RankBounds
        <3> QED
            BY <3>1
    <2> QED
        BY <2>1
<1>8. PagesOn'
    <2>1. Len(globalEntries) \in Nat
        BY PagerTypes
    <2> SUFFICES ASSUME NEW r \in Reader
                 PROVE  /\ pager'[r].base <= Len(globalEntries)
                        /\ pager'[r].state = "idle" => pager'[r].offset = 0
                        /\ pager'[r].state = "paging" =>
                              \A g \in Matching(pager'[r].filter) :
                                  g <= pager'[r].base => \/ g \in pager'[r].seen
                                                         \/ pager'[r].offset < Rank(pager'[r].filter, g)
        BY <1>2, <1>5, <1>6 DEF PagesOn
    <2>2. CASE r = p
        BY <1>1, <1>3, <1>4, <1>7, <2>1, <2>2
    <2>3. CASE r # p
        BY <1>4, <2>3 DEF PagingIInv, PagesOn
    <2> QED
        BY <2>2, <2>3
<1>9. PagingMissesNothing'
    BY <1>1, <1>4, <1>5 DEF PagingIInv, PagingMissesNothing
<1> QED
    BY <1>8, <1>9 DEF PagingIInv

LEMMA QueryPageKeepsPaging ==
    ASSUME AuditTypeOK, PagingIInv, NEW p \in Reader, QueryPage(p)
    PROVE  PagingIInv'
<1> DEFINE f == pager[p].filter
           offset == pager[p].offset
           next == offset + PageSize
           q == [pager[p] EXCEPT !.seen = @ \cup Page(f, offset), !.offset = next,
                                 !.state = IF next < Cardinality(Matching(f)) THEN "paging" ELSE "done"]
<1>1. /\ q.state = (IF next < Cardinality(Matching(f)) THEN "paging" ELSE "done")
      /\ q.filter = f /\ q.base = pager[p].base
      /\ q.offset = next /\ q.seen = pager[p].seen \cup Page(f, offset)
    BY PagerTypes DEF Pager
<1>2. pager' = [pager EXCEPT ![p] = q] /\ pager[p].state = "paging" /\ globalEntries' = globalEntries
    BY DEF QueryPage
<1>3. /\ offset \in Nat /\ next \in Nat /\ pager[p].base <= Len(globalEntries)
      /\ \A g \in Matching(f) : g <= pager[p].base => g \in pager[p].seen \/ offset < Rank(f, g)
    BY <1>2, PagerTypes, PageSizeAssumption DEF PagingIInv, PagesOn
<1>4. ASSUME NEW g \in Matching(f), g <= pager[p].base
      PROVE  g \in q.seen \/ next < Rank(f, g)
    <2>1. CASE g \in pager[p].seen
        BY <1>1, <2>1
    <2>2. CASE offset < Rank(f, g)
        <3>1. Rank(f, g) \in Nat
            BY RankBounds
        <3>2. CASE Rank(f, g) <= next
            BY <1>1, <2>2, <3>2 DEF Page
        <3> QED
            BY <1>3, <3>1, <3>2
    <2> QED
        BY <1>3, <1>4, <2>1, <2>2
<1>5. ASSUME NEW g \in Matching(f), g <= pager[p].base, q.state = "done"
      PROVE  g \in q.seen
    <2>1. /\ Rank(f, g) \in Nat /\ Cardinality(Matching(f)) \in Nat
          /\ Rank(f, g) <= Cardinality(Matching(f))
        BY RankBounds
    <2>2. ~ next < Cardinality(Matching(f))
        BY <1>1, <1>5
    <2>3. ~ next < Rank(f, g)
        BY <1>3, <2>1, <2>2
    <2> QED
        BY <1>4, <1>5, <2>3
<1>6. q.state # "idle"
    BY <1>1
<1> HIDE DEF q
<1>7. pager'[p] = q /\ \A r \in Reader : r # p => pager'[r] = pager[r]
    BY <1>2, PagerTypes
<1>8. \A r : Matching(r)' = Matching(r)
    BY <1>2 DEF Matching, Passes
<1>9. \A r, g : Rank(r, g)' = Rank(r, g)
    BY <1>8 DEF Rank
<1>10. PagesOn'
    <2> SUFFICES ASSUME NEW r \in Reader
                 PROVE  /\ pager'[r].base <= Len(globalEntries)
                        /\ pager'[r].state = "idle" => pager'[r].offset = 0
                        /\ pager'[r].state = "paging" =>
                              \A g \in Matching(pager'[r].filter) :
                                  g <= pager'[r].base => \/ g \in pager'[r].seen
                                                         \/ pager'[r].offset < Rank(pager'[r].filter, g)
        BY <1>2, <1>8, <1>9 DEF PagesOn
    <2>1. CASE r = p
        BY <1>1, <1>3, <1>4, <1>6, <1>7, <2>1
    <2>2. CASE r # p
        BY <1>7, <2>2 DEF PagingIInv, PagesOn
    <2> QED
        BY <2>1, <2>2
<1>11. PagingMissesNothing'
    <2> SUFFICES ASSUME NEW r \in Reader, pager'[r].state = "done",
                        NEW g \in Matching(pager'[r].filter), g <= pager'[r].base
                 PROVE  g \in pager'[r].seen
        BY <1>8 DEF PagingMissesNothing
    <2>1. CASE r = p
        BY <1>1, <1>5, <1>7, <2>1
    <2>2. CASE r # p
        BY <1>7, <2>2 DEF PagingIInv, PagingMissesNothing
    <2> QED
        BY <2>1, <2>2
<1> QED
    BY <1>10, <1>11 DEF PagingIInv

LEMMA NextPagingIInv ==
    AuditTypeOK /\ AuditTypeOK' /\ PagingIInv /\ [AuditNext]_auditVars => PagingIInv'
<1> SUFFICES ASSUME AuditTypeOK, AuditTypeOK', PagingIInv, [AuditNext]_auditVars PROVE PagingIInv'
    OBVIOUS
<1>1. ASSUME UNCHANGED <<globalEntries, pager>> PROVE PagingIInv'
    <2>1. \A r : Matching(r)' = Matching(r)
        BY <1>1 DEF Matching, Passes
    <2>2. \A r, g : Rank(r, g)' = Rank(r, g)
        BY <2>1 DEF Rank
    <2>3. PagesOn'
        BY <1>1, <2>1, <2>2, Zenon DEF PagingIInv, PagesOn
    <2>4. PagingMissesNothing'
        BY <1>1, <2>1, Zenon DEF PagingIInv, PagingMissesNothing
    <2> QED
        BY <2>3, <2>4 DEF PagingIInv
<1>2. ASSUME NEW c \in Client, \/ \E f \in Filter : Connect(c, f)
                               \/ Disconnect(c) \/ Cleanup(c)
      PROVE  PagingIInv'
    BY <1>1, <1>2 DEF Connect, Disconnect, Cleanup
<1>3. CASE UNCHANGED auditVars
    BY <1>1, <1>3 DEF auditVars
<1> QED
    BY <1>2, <1>3, LogKeepsPaging, StartPagingKeepsPaging, QueryPageKeepsPaging DEF AuditNext

\* A client that follows hasMore to the end has seen every matching entry there
\* was when it began, however many arrive while it reads (queryAudit).
THEOREM TrailPagingMissesNothing == AuditSpec => []PagingMissesNothing
<1>1. AuditInit => PagingIInv
    <2> SUFFICES ASSUME AuditInit PROVE PagingIInv
        OBVIOUS
    <2>1. /\ \A p \in Reader : pager[p].state = "idle" /\ pager[p].base = 0 /\ pager[p].offset = 0
          /\ Len(globalEntries) = 0
        BY DEF AuditInit
    <2> QED
        BY <2>1 DEF PagingIInv, PagesOn, PagingMissesNothing
<1>2. PagingIInv => PagingMissesNothing
    BY DEF PagingIInv
<1> QED
    BY <1>1, <1>2, TrailTyped, NextPagingIInv, PTL DEF AuditSpec

=============================================================================

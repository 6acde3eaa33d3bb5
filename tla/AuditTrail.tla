----------------------------- MODULE AuditTrail -----------------------------
(***************************************************************************)
(* The audit trail of the server: the logger every session has             *)
(* (src/audit/logger.ts), the one stream sink they share                   *)
(* (src/audit/sinks/stream.ts), the manager's own listener on it, which    *)
(* fills globalEntries (src/server/session.ts), the /events subscriptions  *)
(* of dashboards (src/server/serve.ts) and clients that page through       *)
(* admin.audit.query.                                                      *)
(*                                                                         *)
(* record() pushes an entry and writes it to the sinks before it returns,  *)
(* and an EventEmitter calls its listeners in the order they registered,   *)
(* the manager's first.  A listener that throws ends the emission: the     *)
(* later listeners are not called and the exception surfaces in the        *)
(* operation that was being logged.  Writing to the stream of a client     *)
(* that has gone, before the abort event has been handled, may throw.      *)
(*                                                                         *)
(* Abstracted: what an entry says beyond its session, who logged it (by)   *)
(* and its place n in the session's log; by and n stand for the identity   *)
(* of the entry object, which the log and globalEntries share.  Of the     *)
(* filters, the one on the session stands for all: they are the same       *)
(* test on another field.                                                  *)
(***************************************************************************)
EXTENDS Naturals, Sequences, FiniteSets

CONSTANTS
    Session,     \* session ids
    Actor,       \* who logs: the calls whose code runs in the sessions
    Client,      \* connections to /events
    Reader,      \* clients that page through admin.audit.query
    AnyId,       \* the filter that lets every session through
    PageSize,    \* the limit such a client asks for
    MaxEntries   \* bound: entries logged

ASSUME AnyIdAssumption == AnyId \notin Session
ASSUME PageSizeAssumption == PageSize \in Nat \ {0}
ASSUME MaxEntriesAssumption == MaxEntries \in Nat

VARIABLES
    local,          \* session -> the entries of its own logger
    globalEntries,  \* what the manager's listener has collected
    listeners,      \* the subscribers' listeners, in the order emit() calls them
    feed,           \* subscriber -> its connection and what it was sent
    aborted,        \* (history) <<g, c>>: c's write threw and ended emission g
    registered,     \* (history) subscribers in the order they registered
    pager           \* client paging through admin.audit.query

auditVars == <<local, globalEntries, listeners, feed, aborted, registered, pager>>

Filter == Session \cup {AnyId}

Entry == [session: Session, by: Actor, n: Nat \ {0}]

\* got holds positions in globalEntries; from and until delimit the time the
\* connection was open, as the number of entries collected at either end.
Feed == [state: {"none", "open", "gone", "closed"}, filter: Filter,
         from: Nat, until: Nat, got: Seq(Nat \ {0})]

Pager == [state: {"idle", "paging", "done"}, filter: Filter,
          base: Nat, offset: Nat, seen: SUBSET (Nat \ {0})]

AuditTypeOK ==
    /\ local \in [Session -> Seq(Entry)]
    /\ globalEntries \in Seq(Entry)
    /\ listeners \in Seq(Client)
    /\ feed \in [Client -> Feed]
    /\ aborted \subseteq (Nat \X Client)
    /\ registered \in Seq(Client)
    /\ pager \in [Reader -> Pager]

AuditInit ==
    /\ local = [s \in Session |-> <<>>]
    /\ globalEntries = <<>>
    /\ listeners = <<>>
    /\ feed = [c \in Client |->
                  [state |-> "none", filter |-> AnyId, from |-> 0, until |-> 0, got |-> <<>>]]
    /\ aborted = {}
    /\ registered = <<>>
    /\ pager = [p \in Reader |->
                  [state |-> "idle", filter |-> AnyId, base |-> 0, offset |-> 0, seen |-> {}]]

Passes(f, s) == f \in {AnyId, s}

----------------------------------------------------------------------------
(* Logging.                                                                *)

\* Where the emission of an entry of session s may end: past the last
\* listener, or at one whose client has gone and whose filter lets it through.
NoThrow == Len(listeners) + 1

Cuts(s) ==
    {NoThrow} \cup
    {i \in DOMAIN listeners : /\ feed[listeners[i]].state = "gone"
                              /\ Passes(feed[listeners[i]].filter, s)}

\* The subscribers an emission that ends at cut was delivered to.
Reached(s, cut) ==
    {c \in Client : /\ feed[c].state = "open"
                    /\ Passes(feed[c].filter, s)
                    /\ \E i \in DOMAIN listeners : i < cut /\ listeners[i] = c}

Deliver(s, cut) ==
    LET g == Len(globalEntries) + 1 IN
    /\ feed' = [c \in Client |->
                   IF c \in Reached(s, cut)
                   THEN [feed[c] EXCEPT !.got = Append(@, g)] ELSE feed[c]]
    /\ aborted' = aborted \cup
                   (IF cut = NoThrow THEN {} ELSE {<<g, listeners[cut]>>})

\* The manager subscribes to its own stream after the dashboards: an emission
\* that a dashboard's write ends does not reach globalEntries.
BugLogManagerLast(s, by, cut) ==
    /\ Len(globalEntries) < MaxEntries
    /\ LET e == [session |-> s, by |-> by, n |-> Len(local[s]) + 1]
       IN /\ local' = [local EXCEPT ![s] = Append(@, e)]
          /\ globalEntries' = IF cut = NoThrow THEN Append(globalEntries, e)
                                               ELSE globalEntries
    /\ Deliver(s, cut)
    /\ UNCHANGED <<listeners, registered, pager>>

\* The entry keeps a caller's sequence number that starts again at zero.
BugLogFromZero(s, by, cut) ==
    /\ Len(globalEntries) < MaxEntries
    /\ LET e == [session |-> s, by |-> by, n |-> Len(local[s])]
       IN /\ local' = [local EXCEPT ![s] = Append(@, e)]
          /\ globalEntries' = Append(globalEntries, e)
    /\ Deliver(s, cut)
    /\ UNCHANGED <<listeners, registered, pager>>

\* record(), emit() and the listeners, in one turn: log() returns if cut is
\* NoThrow and throws otherwise, and the entry is kept either way.
Log(s, by, cut) ==
    /\ Len(globalEntries) < MaxEntries
    /\ LET e == [session |-> s, by |-> by, n |-> Len(local[s]) + 1]
       IN /\ local' = [local EXCEPT ![s] = Append(@, e)]
          /\ globalEntries' = Append(globalEntries, e)
    /\ Deliver(s, cut)
    /\ UNCHANGED <<listeners, registered, pager>>

----------------------------------------------------------------------------
(* Subscriptions to /events.                                               *)

\* New listeners go to the front (prependListener).
BugConnectInFront(c, f) ==
    /\ feed[c].state = "none"
    /\ feed' = [feed EXCEPT ![c].state = "open", ![c].filter = f,
                            ![c].from = Len(globalEntries)]
    /\ listeners' = <<c>> \o listeners
    /\ registered' = Append(registered, c)
    /\ UNCHANGED <<local, globalEntries, aborted, pager>>

Connect(c, f) ==
    /\ feed[c].state = "none"
    /\ feed' = [feed EXCEPT ![c].state = "open", ![c].filter = f,
                            ![c].from = Len(globalEntries)]
    /\ listeners' = Append(listeners, c)
    /\ registered' = Append(registered, c)
    /\ UNCHANGED <<local, globalEntries, aborted, pager>>

\* The connection drops (external): nothing written from now on arrives.
Disconnect(c) ==
    /\ feed[c].state = "open"
    /\ feed' = [feed EXCEPT ![c].state = "gone", ![c].until = Len(globalEntries)]
    /\ UNCHANGED <<local, globalEntries, listeners, aborted, registered, pager>>

\* The abort event: cleanup() takes the listener off the emitter.
Cleanup(c) ==
    /\ feed[c].state = "gone"
    /\ feed' = [feed EXCEPT ![c].state = "closed"]
    /\ \E i \in DOMAIN listeners :
          /\ listeners[i] = c
          /\ listeners' = SubSeq(listeners, 1, i - 1) \o SubSeq(listeners, i + 1, Len(listeners))
    /\ UNCHANGED <<local, globalEntries, aborted, registered, pager>>

----------------------------------------------------------------------------
(* Paging through admin.audit.query: newest first, by offset, until hasMore *)
(* is false, while entries keep arriving between the calls.                 *)

Matching(f) == {g \in DOMAIN globalEntries : Passes(f, globalEntries[g].session)}

\* The rank of g in the filtered, reversed list.
Rank(f, g) == Cardinality({h \in Matching(f) : h >= g})

Page(f, offset) ==
    {g \in Matching(f) : offset < Rank(f, g) /\ Rank(f, g) <= offset + PageSize}

StartPaging(p, f) ==
    /\ pager[p].state = "idle"
    /\ pager' = [pager EXCEPT ![p].state = "paging", ![p].filter = f,
                              ![p].base = Len(globalEntries)]
    /\ UNCHANGED <<local, globalEntries, listeners, feed, aborted, registered>>

\* hasMore counts the page after this one.
BugHasMoreOneShort(p) ==
    /\ pager[p].state = "paging"
    /\ LET f    == pager[p].filter
           next == pager[p].offset + PageSize
       IN pager' = [pager EXCEPT
              ![p].seen   = @ \cup Page(f, pager[p].offset),
              ![p].offset = next,
              ![p].state  = IF next + 1 < Cardinality(Matching(f)) THEN "paging" ELSE "done"]
    /\ UNCHANGED <<local, globalEntries, listeners, feed, aborted, registered>>

QueryPage(p) ==
    /\ pager[p].state = "paging"
    /\ LET f    == pager[p].filter
           next == pager[p].offset + PageSize
       IN pager' = [pager EXCEPT
              ![p].seen   = @ \cup Page(f, pager[p].offset),
              ![p].offset = next,
              ![p].state  = IF next < Cardinality(Matching(f)) THEN "paging" ELSE "done"]
    /\ UNCHANGED <<local, globalEntries, listeners, feed, aborted, registered>>

----------------------------------------------------------------------------

AuditNext ==
    \/ \E s \in Session, by \in Actor : \E cut \in Cuts(s) : Log(s, by, cut)
    \/ \E c \in Client, f \in Filter : Connect(c, f)
    \/ \E c \in Client : Disconnect(c) \/ Cleanup(c)
    \/ \E p \in Reader, f \in Filter : StartPaging(p, f)
    \/ \E p \in Reader : QueryPage(p)

AuditSpec == AuditInit /\ [][AuditNext]_auditVars

----------------------------------------------------------------------------
(* What the trail promises.                                                *)

\* Each session's own log and the server's collection tell one story, whatever
\* subscribers come, go and fail: every entry of a log has been collected, every
\* collected entry is in its session's log at its place, and the collection
\* keeps each session's order (logger.ts record(); session.ts:122-124, the
\* manager's listener registers before any other).
TrailComplete ==
    /\ \A s \in Session : \A n \in DOMAIN local[s] :
          \E g \in DOMAIN globalEntries : globalEntries[g] = local[s][n]
    /\ \A g \in DOMAIN globalEntries :
          LET e == globalEntries[g]
          IN e.n \in DOMAIN local[e.session] /\ local[e.session][e.n] = e
    /\ \A g, h \in DOMAIN globalEntries :
          (g < h /\ globalEntries[g].session = globalEntries[h].session)
              => globalEntries[g].n < globalEntries[h].n

Before(d, c) ==
    \E i, j \in DOMAIN registered : i < j /\ registered[i] = d /\ registered[j] = c

\* The entries collected while c was connected.
Window(c) ==
    (feed[c].from + 1) ..
    (IF feed[c].state = "open" THEN Len(globalEntries) ELSE feed[c].until)

\* A subscriber of /events is sent, once each and in order, exactly the entries
\* collected while it was connected that its filter lets through, except those
\* whose emission the failing write of an earlier subscriber ended (the listener
\* and cleanup() of serve.ts, and emit()'s order).
FeedMissesOnlyAborted ==
    \A c \in Client : feed[c].state # "none" =>
        LET got == feed[c].got IN
        /\ \A i, j \in DOMAIN got : i < j => got[i] < got[j]
        /\ {got[i] : i \in DOMAIN got} =
               {g \in Window(c) :
                   /\ Passes(feed[c].filter, globalEntries[g].session)
                   /\ ~ \E d \in Client : <<g, d>> \in aborted /\ Before(d, c)}

\* A client that follows hasMore to the end has seen every matching entry there
\* was when it began, although each new entry shifts the pages under it
\* (queryAudit, session.ts:129-176).
PagingMissesNothing ==
    \A p \in Reader : pager[p].state = "done" =>
        {g \in Matching(pager[p].filter) : g <= pager[p].base} \subseteq pager[p].seen

=============================================================================

--------------------------- MODULE PluginRegistry ---------------------------
(***************************************************************************)
(* The dynamic plugin registry of one session (createPluginRegistry in     *)
(* src/wrappers/dynamic.ts), driven by the workspace.*Plugin RPC handlers, *)
(* and the executions that take a snapshot of its exports.                 *)
(*                                                                         *)
(* An agent requests a plugin by submitting source; a human approves or    *)
(* rejects it by name.  approve() suspends while it writes a temporary     *)
(* file and imports it, and what it does afterwards uses the entry it read *)
(* before; every other call runs to completion in one turn of the event    *)
(* loop.  The early returns of approve (nothing pending, validation        *)
(* failed, capability missing) and of reject (nothing pending) change no   *)
(* state and are the guards below.                                         *)
(*                                                                         *)
(* Abstracted: the text of a source (a value of Source; Valid holds those  *)
(* validatePlugin accepts), export names, timestamps, who requested, and   *)
(* the temporary directory, private to one call of approve.                *)
(***************************************************************************)
EXTENDS Naturals, Sequences

CONSTANTS
    Name,         \* plugin names
    Source,       \* plugin sources
    Valid,        \* the sources validatePlugin finds no error in
    Granted,      \* the names n for which the session holds plugin:<n>
    Approval,     \* calls of approve() that may overlap
    Execution,    \* calls of execute() in the session
    MaxRequests   \* bound: calls of request()

ASSUME ValidAssumption == Valid \subseteq Source
ASSUME GrantedAssumption == Granted \subseteq Name
ASSUME MaxRequestsAssumption == MaxRequests \in Nat

VARIABLES
    requests,   \* every entry object request() made, in order
    pending,    \* the pending Map: name -> index of the entry, 0 when absent
    loaded,     \* the loaded Map: name -> index of the entry it came from, or 0
    approvals,  \* approval call -> the entry it read, where it stands, and (history)
                \* the entry its pending.delete(name) removed
    scope       \* execution -> what allExports() gave it when it started

vars == <<requests, pending, loaded, approvals, scope>>

\* An entry is known by its index in requests; 0 is "no entry".
EntryRef == 0 .. MaxRequests

Entry == [name: Name, source: Source, status: {"pending", "approved", "rejected"}]

Stage == {"idle", "importing", "loaded", "failed"}

NoScope == [n \in Name |-> 0]

TypeOK ==
    /\ requests \in Seq(Entry)
    /\ Len(requests) <= MaxRequests
    /\ pending \in [Name -> EntryRef]
    /\ loaded \in [Name -> EntryRef]
    /\ approvals \in [Approval -> [stage: Stage, entry: EntryRef, removed: EntryRef]]
    /\ scope \in [Execution -> [Name -> EntryRef]]

Init ==
    /\ requests = <<>>
    /\ pending = NoScope
    /\ loaded = NoScope
    /\ approvals = [a \in Approval |-> [stage |-> "idle", entry |-> 0, removed |-> 0]]
    /\ scope = [e \in Execution |-> NoScope]

----------------------------------------------------------------------------
(* The operations.                                                         *)

(* Definitions named Bug... are the mutants PROJECT.json lists: the action   *)
(* they precede with one plausible mistake.                                *)

\* A name that is pending keeps the entry it has.
BugRequestKeepsOld(n, src) ==
    /\ Len(requests) < MaxRequests
    /\ requests' = Append(requests, [name |-> n, source |-> src, status |-> "pending"])
    /\ pending' = [pending EXCEPT ![n] = IF @ = 0 THEN Len(requests) + 1 ELSE @]
    /\ UNCHANGED <<loaded, approvals, scope>>

\* request(): a new entry takes the name's place in the pending map, whatever
\* the map held, and valid or not: an invalid source is listed for review too.
Request(n, src) ==
    /\ Len(requests) < MaxRequests
    /\ requests' = Append(requests, [name |-> n, source |-> src, status |-> "pending"])
    /\ pending' = [pending EXCEPT ![n] = Len(requests) + 1]
    /\ UNCHANGED <<loaded, approvals, scope>>

\* What approve() checks, in the turn it is called, of the entry it has read.
MayImport(n) ==
    /\ pending[n] # 0
    /\ requests[pending[n]].source \in Valid
    /\ n \in Granted

\* approve() up to its first await: the entry is read, checked and kept.
ApproveStart(a, n) ==
    /\ approvals[a].stage = "idle"
    /\ MayImport(n)
    /\ approvals' = [approvals EXCEPT ![a].stage = "importing", ![a].entry = pending[n]]
    /\ UNCHANGED <<requests, pending, loaded, scope>>

\* approve() looks the name up again after the import.
BugApproveRereads(a) ==
    /\ approvals[a].stage = "importing"
    /\ LET n == requests[approvals[a].entry].name
           i == pending[n]
       IN /\ i # 0
          /\ loaded' = [loaded EXCEPT ![n] = i]
          /\ requests' = [requests EXCEPT ![i].status = "approved"]
          /\ pending' = [pending EXCEPT ![n] = 0]
          /\ approvals' = [approvals EXCEPT ![a].stage = "loaded", ![a].removed = i]
    /\ UNCHANGED scope

\* approve() after the import: the entry read at the start is loaded and
\* marked, and whatever the name now maps to leaves the pending map.
ApproveLoad(a) ==
    /\ approvals[a].stage = "importing"
    /\ LET i == approvals[a].entry
           n == requests[i].name
       IN /\ loaded' = [loaded EXCEPT ![n] = i]
          /\ requests' = [requests EXCEPT ![i].status = "approved"]
          /\ pending' = [pending EXCEPT ![n] = 0]
          /\ approvals' = [approvals EXCEPT ![a].stage = "loaded", ![a].removed = pending[n]]
    /\ UNCHANGED scope

\* The finally block clears the pending request as well.
BugFailClearsPending(a) ==
    /\ approvals[a].stage = "importing"
    /\ approvals' = [approvals EXCEPT ![a].stage = "failed"]
    /\ pending' = [pending EXCEPT ![requests[approvals[a].entry].name] = 0]
    /\ UNCHANGED <<requests, loaded, scope>>

\* The write of the temporary file or the import throws: the finally block
\* removes the directory and the registry is as it was.
ApproveFail(a) ==
    /\ approvals[a].stage = "importing"
    /\ approvals' = [approvals EXCEPT ![a].stage = "failed"]
    /\ UNCHANGED <<requests, pending, loaded, scope>>

\* The refused entry gets the audit trail's word, which is no approval status.
BugRejectMarksDenied(n) ==
    /\ pending[n] # 0
    /\ requests' = [requests EXCEPT ![pending[n]].status = "denied"]
    /\ pending' = [pending EXCEPT ![n] = 0]
    /\ UNCHANGED <<loaded, approvals, scope>>

\* reject(): the entry is marked and leaves the pending map; an approve() that
\* is importing it is not told.
Reject(n) ==
    /\ pending[n] # 0
    /\ requests' = [requests EXCEPT ![pending[n]].status = "rejected"]
    /\ pending' = [pending EXCEPT ![n] = 0]
    /\ UNCHANGED <<loaded, approvals, scope>>

Unload(n) ==
    /\ loaded[n] # 0
    /\ loaded' = [loaded EXCEPT ![n] = 0]
    /\ UNCHANGED <<requests, pending, approvals, scope>>

\* execute() copies allExports() into the scope of the code it is about to run.
StartExecution(e) ==
    /\ scope[e] = NoScope
    /\ scope' = [scope EXCEPT ![e] = loaded]
    /\ UNCHANGED <<requests, pending, loaded, approvals>>

Next ==
    \/ \E n \in Name, src \in Source : Request(n, src)
    \/ \E a \in Approval, n \in Name : ApproveStart(a, n)
    \/ \E a \in Approval : ApproveLoad(a) \/ ApproveFail(a)
    \/ \E n \in Name : Reject(n) \/ Unload(n)
    \/ \E e \in Execution : StartExecution(e)

\* An import settles, one way or the other; nobody has to request, approve,
\* reject or run anything.
Fairness == \A a \in Approval : WF_vars(ApproveLoad(a) \/ ApproveFail(a))

Spec == Init /\ [][Next]_vars /\ Fairness

----------------------------------------------------------------------------
(* What the registry promises.                                             *)

Callable(f) == {n \in Name : f[n] # 0}

\* Everything code can call, through the loaded map or through the scope an
\* execution was given, is the approved, validated source of an entry made
\* under that name, and the session holds the capability plugin:<name>
\* (approve(), dynamic.ts:262-327, whatever was requested, rejected, unloaded
\* or approved again while an import was under way).
ApprovedFrom(f) ==
    \A n \in Callable(f) :
        /\ n \in Granted
        /\ f[n] \in DOMAIN requests
        /\ requests[f[n]].name = n
        /\ requests[f[n]].source \in Valid
        /\ requests[f[n]].status = "approved"

CallableIsApproved ==
    /\ ApprovedFrom(loaded)
    /\ \A e \in Execution : ApprovedFrom(scope[e])

\* What a human decides on is the newest request of the name, still undecided:
\* the pending map never offers a superseded or already decided entry
\* (request() and the deletions in approve() and reject()).
PendingIsNewest ==
    \A n \in Callable(pending) :
        /\ pending[n] \in DOMAIN requests
        /\ requests[pending[n]].name = n
        /\ requests[pending[n]].status = "pending"
        /\ \A i \in DOMAIN requests : requests[i].name = n => i <= pending[n]

\* approve() deletes by name, not by entry, so a request made while an older
\* one is imported leaves the pending map undecided.  That overlap is the only
\* way to lose one: an undecided newest request that is no longer offered was
\* removed by the approval of an older request of its name.
Forgotten(i) ==
    LET n == requests[i].name IN
    /\ requests[i].status = "pending"
    /\ pending[n] # i
    /\ \A j \in DOMAIN requests : requests[j].name = n => j <= i

ForgottenOnlyByOverlap ==
    \A i \in DOMAIN requests : Forgotten(i) =>
        \E a \in Approval :
            /\ approvals[a].stage = "loaded"
            /\ approvals[a].removed = i
            /\ approvals[a].entry < i
            /\ requests[approvals[a].entry].name = requests[i].name

\* docs/guide.md:1366: "Human rejects -- plugin is discarded".  A source that
\* was rejected does not become callable.
RejectedIsDiscarded ==
    [][\A n \in Name :
          (loaded'[n] # loaded[n] /\ loaded'[n] # 0)
              => requests[loaded'[n]].status # "rejected"]_vars

=============================================================================

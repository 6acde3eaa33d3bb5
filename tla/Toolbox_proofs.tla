--------------------------- MODULE Toolbox_proofs ---------------------------
(***************************************************************************)
(* Proofs about the parts that MC_Toolbox puts side by side, for any       *)
(* values of their constants.                                              *)
(*                                                                         *)
(* PluginRegistry: whatever code can call was validated, approved and      *)
(* granted.  CallableIsApproved is not inductive by itself.  approve()     *)
(* loads an entry it read before an await, so what it checked then must    *)
(* still hold (ImportsChecked: names and sources of entries never          *)
(* change); and reject() overwrites a status, so the entry it finds in     *)
(* the pending map must not be one that is loaded (PendingIsNewest: it     *)
(* is undecided).                                                          *)
(*                                                                         *)
(* Schedule, DockerHandles, ProcessRun, AuditStream: what has been         *)
(* started is ended or held, each with an invariant that ties the handle   *)
(* to what it is the handle of; together, NothingLeftOver.                 *)
(*                                                                         *)
(* Capabilities: contexts only shrink.  What a single capability accepts   *)
(* is about the same thing as the capability itself, and derive() has      *)
(* checked that against the parent.                                        *)
(*                                                                         *)
(* LineReader: what is read is in the lines, the buffer or the decoder,    *)
(* however it is cut.  (Text has its own module.)                          *)
(*                                                                         *)
(* StreamPipe: a sink gets a prefix of what its pipeline makes of the      *)
(* source, and all of it once the source is dry.  The specification has    *)
(* no record of what passed between two generators, so the invariant says  *)
(* that there is an account of it (PipeAccount): for each generator, what  *)
(* it has taken.  What a stage remembers is what its result so far says    *)
(* (Remembers), results only grow with their inputs (Grows), and what is   *)
(* due after each stage is defined along the pipeline (Due).               *)
(*                                                                         *)
(* The last section puts the parts side by side, as MC_Toolbox does.       *)
(***************************************************************************)
EXTENDS MC_Toolbox, Text_proofs, FiniteSetTheorems

\* What an approval that imports or has imported was checked for still holds of
\* its entry.
ImportsChecked ==
    \A a \in Approval : approvals[a].stage # "idle" =>
        /\ approvals[a].entry \in DOMAIN requests
        /\ requests[approvals[a].entry].name \in Granted
        /\ requests[approvals[a].entry].source \in Valid

IInv == TypeOK /\ ImportsChecked /\ PendingIsNewest /\ CallableIsApproved

----------------------------------------------------------------------------
(* The list of entries, and the two ways it changes.                       *)

LEMMA EntryAt ==
    ASSUME TypeOK, NEW i \in DOMAIN requests
    PROVE  /\ requests[i] \in Entry
           /\ requests[i].name \in Name
           /\ requests[i].source \in Source
           /\ i \in EntryRef \ {0}
<1>1. requests \in Seq(Entry) /\ Len(requests) <= MaxRequests
    BY DEF TypeOK
<1>2. requests[i] \in Entry /\ i \in 1 .. Len(requests)
    BY <1>1
<1> QED
    BY <1>1, <1>2, MaxRequestsAssumption DEF Entry, EntryRef

\* request() adds an entry and leaves the others as they are.
LEMMA RequestsAppended ==
    ASSUME TypeOK, NEW n \in Name, NEW src \in Source, Request(n, src)
    PROVE  /\ requests' \in Seq(Entry)
           /\ Len(requests') = Len(requests) + 1
           /\ DOMAIN requests' = 1 .. Len(requests) + 1
           /\ DOMAIN requests = 1 .. Len(requests)
           /\ Len(requests) + 1 \in EntryRef
           /\ requests'[Len(requests) + 1] =
                  [name |-> n, source |-> src, status |-> "pending"]
           /\ \A i \in DOMAIN requests : requests'[i] = requests[i]
<1> DEFINE e == [name |-> n, source |-> src, status |-> "pending"]
<1>1. requests \in Seq(Entry) /\ Len(requests) \in Nat
    BY DEF TypeOK
<1>2. e \in Entry
    BY DEF Entry
<1>3. requests' = Append(requests, e) /\ Len(requests) < MaxRequests
    BY DEF Request
<1> HIDE DEF e
<1>4. /\ requests' \in Seq(Entry)
      /\ Len(requests') = Len(requests) + 1
      /\ DOMAIN requests = 1 .. Len(requests)
      /\ requests'[Len(requests) + 1] = e
      /\ \A i \in DOMAIN requests : requests'[i] = requests[i]
    BY <1>1, <1>2, <1>3
<1>5. DOMAIN requests' = 1 .. Len(requests) + 1
    BY <1>4
<1> QED
    BY <1>1, <1>3, <1>4, <1>5, MaxRequestsAssumption DEF e, EntryRef

\* A decision on entry i changes its status only, and no other entry.
LEMMA StatusChanged ==
    ASSUME TypeOK, NEW i \in DOMAIN requests, NEW st \in {"pending", "approved", "rejected"},
           requests' = [requests EXCEPT ![i].status = st]
    PROVE  /\ requests' \in Seq(Entry)
           /\ Len(requests') = Len(requests)
           /\ DOMAIN requests' = DOMAIN requests
           /\ requests'[i].status = st
           /\ \A j \in DOMAIN requests : /\ requests'[j].name = requests[j].name
                                         /\ requests'[j].source = requests[j].source
                                         /\ j # i => requests'[j] = requests[j]
<1> DEFINE e == [requests[i] EXCEPT !.status = st]
<1>1. requests \in Seq(Entry)
    BY DEF TypeOK
<1>2. requests[i] \in Entry
    BY EntryAt
<1>3. /\ e \in Entry
      /\ e.status = st /\ e.name = requests[i].name /\ e.source = requests[i].source
    BY <1>2 DEF Entry
<1>4. requests' = [requests EXCEPT ![i] = e]
    OBVIOUS
<1> HIDE DEF e
<1>5. /\ requests' \in Seq(Entry)
      /\ Len(requests') = Len(requests)
      /\ DOMAIN requests' = DOMAIN requests
      /\ requests'[i] = e
      /\ \A j \in DOMAIN requests : j # i => requests'[j] = requests[j]
    BY <1>1, <1>3, <1>4
<1> QED
    BY <1>3, <1>5

----------------------------------------------------------------------------
(* Types.                                                                  *)

LEMMA InitTypeOK == Init => TypeOK
<1> SUFFICES ASSUME Init PROVE TypeOK
    OBVIOUS
<1>1. requests \in Seq(Entry) /\ Len(requests) <= MaxRequests
    BY MaxRequestsAssumption DEF Init
<1>2. NoScope \in [Name -> EntryRef]
    BY MaxRequestsAssumption DEF NoScope, EntryRef
<1>3. approvals \in [Approval -> [stage: Stage, entry: EntryRef, removed: EntryRef]]
    <2>1. "idle" \in Stage /\ 0 \in EntryRef
        BY MaxRequestsAssumption DEF Stage, EntryRef
    <2>2. [stage |-> "idle", entry |-> 0, removed |-> 0] \in
              [stage: Stage, entry: EntryRef, removed: EntryRef]
        BY <2>1
    <2> QED
        BY <2>2 DEF Init
<1> QED
    BY <1>1, <1>2, <1>3 DEF Init, TypeOK

\* The records approvals holds, as their fields change.
LEMMA ApprovalsTyped ==
    ASSUME TypeOK, NEW a \in Approval, NEW st \in Stage, NEW i \in EntryRef, NEW r \in EntryRef
    PROVE  /\ [approvals EXCEPT ![a].stage = st, ![a].entry = i]
                  \in [Approval -> [stage: Stage, entry: EntryRef, removed: EntryRef]]
           /\ [approvals EXCEPT ![a].stage = st, ![a].removed = r]
                  \in [Approval -> [stage: Stage, entry: EntryRef, removed: EntryRef]]
           /\ [approvals EXCEPT ![a].stage = st]
                  \in [Approval -> [stage: Stage, entry: EntryRef, removed: EntryRef]]
    BY DEF TypeOK

LEMMA NextTypeOK == TypeOK /\ ImportsChecked /\ PendingIsNewest /\ [Next]_vars => TypeOK'
<1> SUFFICES ASSUME TypeOK, ImportsChecked, PendingIsNewest, [Next]_vars
             PROVE  TypeOK'
    OBVIOUS
<1>0. 0 \in EntryRef
    BY MaxRequestsAssumption DEF EntryRef
<1>1. ASSUME NEW n \in Name, NEW src \in Source, Request(n, src)
      PROVE  TypeOK'
    <2>1. Len(requests') <= MaxRequests
        BY <1>1, RequestsAppended, MaxRequestsAssumption DEF EntryRef, Request
    <2> QED
        BY <1>1, <2>1, RequestsAppended DEF TypeOK, Request
<1>2. ASSUME NEW a \in Approval, NEW n \in Name, ApproveStart(a, n)
      PROVE  TypeOK'
    <2>1. pending[n] \in EntryRef /\ "importing" \in Stage
        BY DEF TypeOK, Stage
    <2> QED
        BY <1>0, <1>2, <2>1, ApprovalsTyped DEF TypeOK, ApproveStart
<1>3. ASSUME NEW a \in Approval, ApproveLoad(a)
      PROVE  TypeOK'
    <2> DEFINE i == approvals[a].entry
               n == requests[i].name
    <2>1. i \in DOMAIN requests
        BY <1>3 DEF ApproveLoad, ImportsChecked
    <2>2. n \in Name /\ i \in EntryRef
        BY <2>1, EntryAt
    <2>3. requests' \in Seq(Entry) /\ Len(requests') = Len(requests)
        BY <1>3, <2>1, StatusChanged DEF ApproveLoad
    <2>4. pending[n] \in EntryRef /\ "loaded" \in Stage
        BY <2>2 DEF TypeOK, Stage
    <2>5. approvals' \in [Approval -> [stage: Stage, entry: EntryRef, removed: EntryRef]]
        BY <1>0, <1>3, <2>4, ApprovalsTyped DEF ApproveLoad
    <2>6. loaded' \in [Name -> EntryRef] /\ pending' \in [Name -> EntryRef]
        BY <1>0, <1>3, <2>2 DEF TypeOK, ApproveLoad
    <2> QED
        BY <1>3, <2>3, <2>5, <2>6 DEF TypeOK, ApproveLoad
<1>4. ASSUME NEW a \in Approval, ApproveFail(a)
      PROVE  TypeOK'
    <2>1. approvals' \in [Approval -> [stage: Stage, entry: EntryRef, removed: EntryRef]]
        BY <1>0, <1>4, ApprovalsTyped DEF ApproveFail, Stage
    <2> QED
        BY <1>4, <2>1 DEF TypeOK, ApproveFail
<1>5. ASSUME NEW n \in Name, Reject(n)
      PROVE  TypeOK'
    <2>1. pending[n] \in DOMAIN requests
        BY <1>5 DEF Reject, PendingIsNewest, Callable
    <2>2. requests' \in Seq(Entry) /\ Len(requests') = Len(requests)
        BY <1>5, <2>1, StatusChanged DEF Reject
    <2>3. pending' \in [Name -> EntryRef]
        BY <1>0, <1>5 DEF TypeOK, Reject
    <2> QED
        BY <1>5, <2>2, <2>3 DEF TypeOK, Reject
<1>6. ASSUME NEW n \in Name, Unload(n)
      PROVE  TypeOK'
    BY <1>0, <1>6 DEF TypeOK, Unload
<1>7. ASSUME NEW e \in Execution, StartExecution(e)
      PROVE  TypeOK'
    BY <1>7 DEF TypeOK, StartExecution
<1>8. CASE UNCHANGED vars
    BY <1>8 DEF TypeOK, vars
<1> QED
    BY <1>1, <1>2, <1>3, <1>4, <1>5, <1>6, <1>7, <1>8 DEF Next

----------------------------------------------------------------------------
(* The three parts of the invariant, each kept by every step.              *)

\* Names and sources of entries are for ever; only approve() adds an import.
LEMMA NextImportsChecked ==
    TypeOK /\ ImportsChecked /\ PendingIsNewest /\ [Next]_vars => ImportsChecked'
<1> SUFFICES ASSUME TypeOK, ImportsChecked, PendingIsNewest, [Next]_vars
             PROVE  ImportsChecked'
    OBVIOUS
<1>1. ASSUME NEW n \in Name, NEW src \in Source, Request(n, src)
      PROVE  ImportsChecked'
    BY <1>1, RequestsAppended DEF ImportsChecked, Request
<1>2. ASSUME NEW a \in Approval, NEW n \in Name, ApproveStart(a, n)
      PROVE  ImportsChecked'
    <2>1. /\ pending[n] \in DOMAIN requests
          /\ requests[pending[n]].name = n
          /\ n \in Granted /\ requests[pending[n]].source \in Valid
        BY <1>2 DEF ApproveStart, MayImport, PendingIsNewest, Callable
    <2>2. /\ approvals'[a].entry = pending[n]
          /\ \A b \in Approval : b # a => approvals'[b] = approvals[b]
          /\ requests' = requests
        BY <1>2 DEF ApproveStart, TypeOK
    <2> QED
        BY <2>1, <2>2 DEF ImportsChecked
<1>3. ASSUME NEW a \in Approval, ApproveLoad(a)
      PROVE  ImportsChecked'
    <2>1. approvals[a].entry \in DOMAIN requests
        BY <1>3 DEF ApproveLoad, ImportsChecked
    <2>2. \A b \in Approval : /\ approvals'[b].entry = approvals[b].entry
                              /\ approvals'[b].stage # "idle" => approvals[b].stage # "idle"
        BY <1>3 DEF ApproveLoad, TypeOK
    <2>3. requests' = [requests EXCEPT ![approvals[a].entry].status = "approved"]
        BY <1>3 DEF ApproveLoad
    <2>4. /\ DOMAIN requests' = DOMAIN requests
          /\ \A j \in DOMAIN requests : /\ requests'[j].name = requests[j].name
                                        /\ requests'[j].source = requests[j].source
        BY <2>1, <2>3, StatusChanged
    <2> QED
        BY <2>2, <2>4 DEF ImportsChecked
<1>4. ASSUME NEW a \in Approval, ApproveFail(a)
      PROVE  ImportsChecked'
    <2>1. \A b \in Approval : /\ approvals'[b].entry = approvals[b].entry
                              /\ approvals'[b].stage # "idle" => approvals[b].stage # "idle"
        BY <1>4 DEF ApproveFail, TypeOK
    <2> QED
        BY <1>4, <2>1 DEF ApproveFail, ImportsChecked
<1>5. ASSUME NEW n \in Name, Reject(n)
      PROVE  ImportsChecked'
    <2>1. pending[n] \in DOMAIN requests
        BY <1>5 DEF Reject, PendingIsNewest, Callable
    <2> QED
        BY <1>5, <2>1, StatusChanged DEF Reject, ImportsChecked
<1>6. ASSUME NEW n \in Name, Unload(n)
      PROVE  ImportsChecked'
    BY <1>6 DEF Unload, ImportsChecked
<1>7. ASSUME NEW e \in Execution, StartExecution(e)
      PROVE  ImportsChecked'
    BY <1>7 DEF StartExecution, ImportsChecked
<1>8. CASE UNCHANGED vars
    BY <1>8 DEF vars, ImportsChecked
<1> QED
    BY <1>1, <1>2, <1>3, <1>4, <1>5, <1>6, <1>7, <1>8 DEF Next

\* What leaves the pending map leaves by name, so the rest keeps its entries.
LEMMA NextPendingIsNewest ==
    TypeOK /\ ImportsChecked /\ PendingIsNewest /\ [Next]_vars => PendingIsNewest'
<1> SUFFICES ASSUME TypeOK, ImportsChecked, PendingIsNewest, [Next]_vars,
                    NEW m \in Name, pending'[m] # 0
             PROVE  /\ pending'[m] \in DOMAIN requests'
                    /\ requests'[pending'[m]].name = m
                    /\ requests'[pending'[m]].status = "pending"
                    /\ \A i \in DOMAIN requests' : requests'[i].name = m => i <= pending'[m]
    BY DEF PendingIsNewest, Callable
<1> DEFINE Goal == /\ pending'[m] \in DOMAIN requests'
                   /\ requests'[pending'[m]].name = m
                   /\ requests'[pending'[m]].status = "pending"
                   /\ \A i \in DOMAIN requests' : requests'[i].name = m => i <= pending'[m]
<1>0. pending[m] # 0 =>
          /\ pending[m] \in DOMAIN requests
          /\ requests[pending[m]].name = m
          /\ requests[pending[m]].status = "pending"
          /\ \A i \in DOMAIN requests : requests[i].name = m => i <= pending[m]
    BY DEF PendingIsNewest, Callable
<1>1. ASSUME NEW n \in Name, NEW src \in Source, Request(n, src)
      PROVE  Goal
    <2>1. Len(requests) \in Nat /\ pending \in [Name -> EntryRef]
        BY DEF TypeOK
    <2>2. /\ DOMAIN requests' = 1 .. Len(requests) + 1
          /\ DOMAIN requests = 1 .. Len(requests)
          /\ requests'[Len(requests) + 1].name = n
          /\ requests'[Len(requests) + 1].status = "pending"
          /\ \A i \in DOMAIN requests : requests'[i] = requests[i]
        BY <1>1, RequestsAppended DEF Request
    <2>3. CASE m = n
        <3>1. pending'[m] = Len(requests) + 1
            BY <1>1, <2>1, <2>3 DEF Request
        <3> QED
            BY <2>1, <2>2, <2>3, <3>1
    <2>4. CASE m # n
        <3>1. pending'[m] = pending[m]
            BY <1>1, <2>1, <2>4 DEF Request
        <3>2. \A i \in DOMAIN requests' : requests'[i].name = m => i \in DOMAIN requests
            BY <2>1, <2>2, <2>4
        <3>3. DOMAIN requests \subseteq DOMAIN requests'
            BY <2>1, <2>2
        <3> QED
            BY <1>0, <2>2, <3>1, <3>2, <3>3
    <2> QED
        BY <2>3, <2>4
<1>2. ASSUME NEW a \in Approval, NEW n \in Name, ApproveStart(a, n)
      PROVE  Goal
    BY <1>0, <1>2 DEF ApproveStart
<1>3. ASSUME NEW a \in Approval, ApproveLoad(a)
      PROVE  Goal
    <2> DEFINE i == approvals[a].entry
               n == requests[i].name
    <2>1. i \in DOMAIN requests /\ n \in Name
        BY <1>3, EntryAt DEF ApproveLoad, ImportsChecked
    <2>2. m # n /\ pending'[m] = pending[m]
        BY <1>3, <2>1 DEF ApproveLoad, TypeOK
    <2>3. pending[m] # i
        BY <1>0, <2>2
    <2>4. requests' = [requests EXCEPT ![i].status = "approved"]
        BY <1>3 DEF ApproveLoad
    <2> QED
        BY <1>0, <2>1, <2>2, <2>3, <2>4, StatusChanged
<1>4. ASSUME NEW a \in Approval, ApproveFail(a)
      PROVE  Goal
    BY <1>0, <1>4 DEF ApproveFail
<1>5. ASSUME NEW n \in Name, Reject(n)
      PROVE  Goal
    <2>1. pending[n] \in DOMAIN requests /\ requests[pending[n]].name = n
        BY <1>5 DEF Reject, PendingIsNewest, Callable
    <2>2. m # n /\ pending'[m] = pending[m]
        BY <1>5 DEF Reject, TypeOK
    <2>3. pending[m] # pending[n]
        BY <1>0, <2>1, <2>2
    <2>4. requests' = [requests EXCEPT ![pending[n]].status = "rejected"]
        BY <1>5 DEF Reject
    <2> QED
        BY <1>0, <2>1, <2>2, <2>3, <2>4, StatusChanged
<1>6. ASSUME NEW n \in Name, Unload(n)
      PROVE  Goal
    BY <1>0, <1>6 DEF Unload
<1>7. ASSUME NEW e \in Execution, StartExecution(e)
      PROVE  Goal
    BY <1>0, <1>7 DEF StartExecution
<1>8. CASE UNCHANGED vars
    BY <1>0, <1>8 DEF vars
<1> QED
    BY <1>1, <1>2, <1>3, <1>4, <1>5, <1>6, <1>7, <1>8 DEF Next

\* A map that names only approved entries still does when a step leaves their
\* names, sources and status alone.
LEMMA ApprovedStays ==
    ASSUME NEW f \in [Name -> EntryRef], ApprovedFrom(f),
           \A i \in DOMAIN requests : requests[i].status = "approved" =>
               /\ i \in DOMAIN requests'
               /\ requests'[i].name = requests[i].name
               /\ requests'[i].source = requests[i].source
               /\ requests'[i].status = "approved"
    PROVE  ApprovedFrom(f)'
    BY DEF ApprovedFrom, Callable

LEMMA NextCallableIsApproved == IInv /\ [Next]_vars => CallableIsApproved'
<1> SUFFICES ASSUME IInv, [Next]_vars
             PROVE  CallableIsApproved'
    OBVIOUS
<1> DEFINE Stays == \A i \in DOMAIN requests : requests[i].status = "approved" =>
                       /\ i \in DOMAIN requests'
                       /\ requests'[i].name = requests[i].name
                       /\ requests'[i].source = requests[i].source
                       /\ requests'[i].status = "approved"
<1>0. /\ TypeOK /\ ImportsChecked /\ PendingIsNewest
      /\ loaded \in [Name -> EntryRef] /\ ApprovedFrom(loaded)
      /\ \A e \in Execution : scope[e] \in [Name -> EntryRef] /\ ApprovedFrom(scope[e])
    BY DEF IInv, TypeOK, CallableIsApproved
<1>1. ASSUME Stays, UNCHANGED <<loaded, scope>>
      PROVE  CallableIsApproved'
    <2>1. ApprovedFrom(loaded)'
        BY <1>0, <1>1, ApprovedStays DEF ApprovedFrom, Callable
    <2>2. ASSUME NEW e \in Execution
          PROVE  ApprovedFrom(scope[e])'
        BY <1>0, <1>1, ApprovedStays DEF ApprovedFrom, Callable
    <2> QED
        BY <2>1, <2>2 DEF CallableIsApproved
<1>2. ASSUME NEW n \in Name, NEW src \in Source, Request(n, src)
      PROVE  CallableIsApproved'
    <2>1. Stays
        <3>1. /\ Len(requests) \in Nat
              /\ DOMAIN requests' = 1 .. Len(requests) + 1
              /\ DOMAIN requests = 1 .. Len(requests)
              /\ \A i \in DOMAIN requests : requests'[i] = requests[i]
            BY <1>0, <1>2, RequestsAppended DEF Request, TypeOK
        <3>2. DOMAIN requests \subseteq DOMAIN requests'
            BY <3>1
        <3> QED
            BY <3>1, <3>2
    <2> QED
        BY <1>1, <1>2, <2>1 DEF Request
<1>3. ASSUME NEW a \in Approval, NEW n \in Name, ApproveStart(a, n)
      PROVE  CallableIsApproved'
    BY <1>1, <1>3 DEF ApproveStart
<1>4. ASSUME NEW a \in Approval, ApproveLoad(a)
      PROVE  CallableIsApproved'
    <2> DEFINE i == approvals[a].entry
               n == requests[i].name
    <2>1. /\ i \in DOMAIN requests
          /\ n \in Granted /\ n \in Name
          /\ requests[i].source \in Valid
        BY <1>0, <1>4, EntryAt DEF ApproveLoad, ImportsChecked
    <2>2. /\ requests' = [requests EXCEPT ![i].status = "approved"]
          /\ loaded' = [loaded EXCEPT ![n] = i]
          /\ scope' = scope
        BY <1>4 DEF ApproveLoad
    <2>3. /\ DOMAIN requests' = DOMAIN requests
          /\ requests'[i].status = "approved"
          /\ \A j \in DOMAIN requests : /\ requests'[j].name = requests[j].name
                                        /\ requests'[j].source = requests[j].source
                                        /\ j # i => requests'[j] = requests[j]
        BY <1>0, <2>1, <2>2, StatusChanged
    <2>4. ASSUME NEW e \in Execution
          PROVE  ApprovedFrom(scope[e])'
        BY <1>0, <2>2, <2>3 DEF ApprovedFrom, Callable
    <2>5. ApprovedFrom(loaded)'
        <3> SUFFICES ASSUME NEW m \in Name, loaded'[m] # 0
                     PROVE  /\ m \in Granted
                            /\ loaded'[m] \in DOMAIN requests'
                            /\ requests'[loaded'[m]].name = m
                            /\ requests'[loaded'[m]].source \in Valid
                            /\ requests'[loaded'[m]].status = "approved"
            BY DEF ApprovedFrom, Callable
        <3>1. CASE m = n
            <4>1. loaded'[m] = i
                BY <1>0, <2>1, <2>2, <3>1
            <4> QED
                BY <2>1, <2>3, <3>1, <4>1
        <3>2. CASE m # n
            <4>1. loaded'[m] = loaded[m]
                BY <1>0, <2>1, <2>2, <3>2
            <4> QED
                BY <1>0, <2>3, <4>1 DEF ApprovedFrom, Callable
        <3> QED
            BY <3>1, <3>2
    <2> QED
        BY <2>4, <2>5 DEF CallableIsApproved
<1>5. ASSUME NEW a \in Approval, ApproveFail(a)
      PROVE  CallableIsApproved'
    BY <1>1, <1>5 DEF ApproveFail
<1>6. ASSUME NEW n \in Name, Reject(n)
      PROVE  CallableIsApproved'
    <2>1. /\ pending[n] \in DOMAIN requests
          /\ requests[pending[n]].status = "pending"
          /\ requests' = [requests EXCEPT ![pending[n]].status = "rejected"]
        BY <1>0, <1>6 DEF Reject, PendingIsNewest, Callable
    <2>2. Stays
        BY <1>0, <2>1, StatusChanged
    <2> QED
        BY <1>1, <1>6, <2>2 DEF Reject
<1>7. ASSUME NEW n \in Name, Unload(n)
      PROVE  CallableIsApproved'
    <2>1. ApprovedFrom(loaded)'
        BY <1>0, <1>7 DEF Unload, ApprovedFrom, Callable
    <2>2. ASSUME NEW e \in Execution
          PROVE  ApprovedFrom(scope[e])'
        BY <1>0, <1>7 DEF Unload, ApprovedFrom, Callable
    <2> QED
        BY <2>1, <2>2 DEF CallableIsApproved
<1>8. ASSUME NEW d \in Execution, StartExecution(d)
      PROVE  CallableIsApproved'
    <2>1. ApprovedFrom(loaded)'
        BY <1>0, <1>8 DEF StartExecution, ApprovedFrom, Callable
    <2>2. ASSUME NEW e \in Execution
          PROVE  ApprovedFrom(scope[e])'
        <3>1. scope'[e] \in {scope[e], loaded} /\ requests' = requests
            BY <1>0, <1>8 DEF StartExecution, TypeOK
        <3> QED
            BY <1>0, <3>1 DEF ApprovedFrom, Callable
    <2> QED
        BY <2>1, <2>2 DEF CallableIsApproved
<1>9. CASE UNCHANGED vars
    BY <1>1, <1>9 DEF vars
<1> QED
    BY <1>2, <1>3, <1>4, <1>5, <1>6, <1>7, <1>8, <1>9 DEF Next

----------------------------------------------------------------------------
(* The theorems.                                                           *)

LEMMA InitIInv == Init => IInv
<1> SUFFICES ASSUME Init PROVE IInv
    OBVIOUS
<1>1. TypeOK
    BY InitTypeOK
<1>2. ImportsChecked
    BY DEF Init, ImportsChecked
<1>3. PendingIsNewest
    BY DEF Init, PendingIsNewest, Callable, NoScope
<1>4. CallableIsApproved
    BY DEF Init, CallableIsApproved, ApprovedFrom, Callable, NoScope
<1> QED
    BY <1>1, <1>2, <1>3, <1>4 DEF IInv

\* The invariant holds in every behaviour of the registry.
THEOREM RegistryInvariant == Spec => []IInv
<1>1. Init => IInv
    BY InitIInv
<1>2. IInv /\ [Next]_vars => IInv'
    BY NextTypeOK, NextImportsChecked, NextPendingIsNewest, NextCallableIsApproved DEF IInv
<1> QED
    BY <1>1, <1>2, PTL DEF Spec

\* Every state of the registry is well typed: in particular no step makes an
\* entry that is not in the list, or a status that is not one of the three.
THEOREM RegistryTyped == Spec => []TypeOK
<1>1. IInv => TypeOK
    BY DEF IInv
<1> QED
    BY <1>1, RegistryInvariant, PTL

\* Whatever requests, rejections, unloads and overlapping approvals there are,
\* code can call only what was validated, approved and granted (approve() and
\* allExports() of dynamic.ts).
THEOREM RegistryCallableIsApproved == Spec => []CallableIsApproved
<1>1. IInv => CallableIsApproved
    BY DEF IInv
<1> QED
    BY <1>1, RegistryInvariant, PTL

\* What a human is asked to decide on is the newest request of its name, and
\* undecided (the pending map of dynamic.ts).
THEOREM RegistryPendingIsNewest == Spec => []PendingIsNewest
<1>1. IInv => PendingIsNewest
    BY DEF IInv
<1> QED
    BY <1>1, RegistryInvariant, PTL

----------------------------------------------------------------------------
(* Requests are lost to an overlapping approval only.                      *)

\* The approval that removed entry i while it imported an older one.
Overlapped(i) ==
    \E a \in Approval :
        /\ approvals[a].stage = "loaded"
        /\ approvals[a].removed = i
        /\ approvals[a].entry < i
        /\ requests[approvals[a].entry].name = requests[i].name

\* Approvals that have loaded stay as they are, and names are for ever.
LEMMA OverlapStays ==
    ASSUME IInv, NEW i \in DOMAIN requests, Overlapped(i),
           \A j \in DOMAIN requests : requests'[j].name = requests[j].name,
           \A a \in Approval : approvals[a].stage = "loaded" => approvals'[a] = approvals[a]
    PROVE  Overlapped(i)'
<1>1. PICK a \in Approval : /\ approvals[a].stage = "loaded"
                            /\ approvals[a].removed = i
                            /\ approvals[a].entry < i
                            /\ requests[approvals[a].entry].name = requests[i].name
    BY DEF Overlapped
<1>2. approvals[a].entry \in DOMAIN requests
    BY <1>1 DEF IInv, ImportsChecked
<1> QED
    BY <1>1, <1>2 DEF Overlapped

LEMMA NextForgottenOnlyByOverlap ==
    IInv /\ ForgottenOnlyByOverlap /\ [Next]_vars => ForgottenOnlyByOverlap'
<1> SUFFICES ASSUME IInv, ForgottenOnlyByOverlap, [Next]_vars,
                    NEW i \in DOMAIN requests', Forgotten(i)'
             PROVE  Overlapped(i)'
    BY DEF ForgottenOnlyByOverlap, Overlapped
<1> DEFINE m == requests'[i].name
<1>0. /\ TypeOK /\ ImportsChecked /\ PendingIsNewest
      /\ requests'[i].status = "pending" /\ pending'[m] # i
      /\ \A j \in DOMAIN requests' : requests'[j].name = m => j <= i
      /\ \A j \in DOMAIN requests : Forgotten(j) => Overlapped(j)
    BY DEF IInv, Forgotten, ForgottenOnlyByOverlap, Overlapped
\* A step that leaves the entries and the approvals that loaded alone.
<1>1. ASSUME i \in DOMAIN requests, DOMAIN requests \subseteq DOMAIN requests',
             \A j \in DOMAIN requests : requests'[j].name = requests[j].name,
             requests'[i] = requests[i], pending'[m] = pending[m],
             \A a \in Approval : approvals[a].stage = "loaded" => approvals'[a] = approvals[a]
      PROVE  Overlapped(i)'
    <2>1. Forgotten(i)
        BY <1>0, <1>1 DEF Forgotten
    <2> QED
        BY <1>0, <1>1, <2>1, OverlapStays
<1>2. ASSUME NEW n \in Name, NEW src \in Source, Request(n, src)
      PROVE  Overlapped(i)'
    <2>1. /\ Len(requests) \in Nat
          /\ DOMAIN requests' = 1 .. Len(requests) + 1
          /\ DOMAIN requests = 1 .. Len(requests)
          /\ requests'[Len(requests) + 1].name = n
          /\ \A j \in DOMAIN requests : requests'[j] = requests[j]
        BY <1>0, <1>2, RequestsAppended DEF Request, TypeOK
    <2>2. m # n
        <3>1. pending'[n] = Len(requests) + 1
            BY <1>0, <1>2 DEF Request, TypeOK
        <3> QED
            BY <1>0, <2>1, <3>1
    <2>3. i \in DOMAIN requests /\ DOMAIN requests \subseteq DOMAIN requests'
        BY <2>1, <2>2
    <2>4. pending'[m] = pending[m] /\ approvals' = approvals
        BY <1>0, <1>2, <2>2 DEF Request, TypeOK
    <2> QED
        BY <1>1, <2>1, <2>3, <2>4
<1>3. ASSUME NEW a \in Approval, NEW n \in Name, ApproveStart(a, n)
      PROVE  Overlapped(i)'
    <2>1. \A b \in Approval : approvals[b].stage = "loaded" => approvals'[b] = approvals[b]
        BY <1>0, <1>3 DEF ApproveStart, TypeOK
    <2> QED
        BY <1>1, <1>3, <2>1 DEF ApproveStart
<1>4. ASSUME NEW a \in Approval, ApproveLoad(a)
      PROVE  Overlapped(i)'
    <2> DEFINE k == approvals[a].entry
               n == requests[k].name
    <2>1. /\ k \in DOMAIN requests /\ n \in Name
          /\ requests' = [requests EXCEPT ![k].status = "approved"]
          /\ pending' = [pending EXCEPT ![n] = 0]
          /\ approvals[a].stage = "importing"
        BY <1>0, <1>4, EntryAt DEF ApproveLoad, ImportsChecked
    <2>2. /\ DOMAIN requests' = DOMAIN requests
          /\ requests'[k].status = "approved"
          /\ \A j \in DOMAIN requests : /\ requests'[j].name = requests[j].name
                                        /\ j # k => requests'[j] = requests[j]
        BY <1>0, <2>1, StatusChanged
    <2>3. i # k /\ i \in DOMAIN requests /\ requests'[i] = requests[i]
        BY <1>0, <2>2
    <2>4. \A b \in Approval : approvals[b].stage = "loaded" => approvals'[b] = approvals[b]
        BY <1>0, <1>4, <2>1 DEF ApproveLoad, TypeOK
    <2>5. CASE m # n
        <3>1. pending'[m] = pending[m]
            BY <1>0, <2>1, <2>5 DEF TypeOK
        <3> QED
            BY <1>1, <2>2, <2>3, <2>4, <3>1
    <2>6. CASE m = n /\ pending[n] # i
        <3>1. Forgotten(i)
            BY <1>0, <2>2, <2>3, <2>6 DEF Forgotten
        <3> QED
            BY <1>0, <2>2, <2>3, <2>4, <3>1, OverlapStays
    <2>7. CASE m = n /\ pending[n] = i
        <3>1. k <= i
            BY <1>0, <2>1, <2>2, <2>7
        <3>2. /\ approvals'[a].stage = "loaded"
              /\ approvals'[a].removed = i
              /\ approvals'[a].entry = k
            BY <1>0, <1>4, <2>7 DEF ApproveLoad, TypeOK
        <3>3. k < i
            BY <1>0, <2>1, <2>3, <3>1, EntryAt, MaxRequestsAssumption DEF EntryRef
        <3> QED
            BY <2>1, <2>2, <2>3, <2>7, <3>2, <3>3 DEF Overlapped
    <2> QED
        BY <2>5, <2>6, <2>7
<1>5. ASSUME NEW a \in Approval, ApproveFail(a)
      PROVE  Overlapped(i)'
    <2>1. \A b \in Approval : approvals[b].stage = "loaded" => approvals'[b] = approvals[b]
        BY <1>0, <1>5 DEF ApproveFail, TypeOK
    <2> QED
        BY <1>1, <1>5, <2>1 DEF ApproveFail
<1>6. ASSUME NEW n \in Name, Reject(n)
      PROVE  Overlapped(i)'
    <2> DEFINE k == pending[n]
    <2>1. /\ k \in DOMAIN requests /\ requests[k].name = n
          /\ \A j \in DOMAIN requests : requests[j].name = n => j <= k
          /\ requests' = [requests EXCEPT ![k].status = "rejected"]
          /\ pending' = [pending EXCEPT ![n] = 0]
          /\ approvals' = approvals
        BY <1>0, <1>6 DEF Reject, PendingIsNewest, Callable
    <2>2. /\ DOMAIN requests' = DOMAIN requests
          /\ requests'[k].status = "rejected"
          /\ \A j \in DOMAIN requests : /\ requests'[j].name = requests[j].name
                                        /\ j # k => requests'[j] = requests[j]
        BY <1>0, <2>1, StatusChanged
    <2>3. i # k /\ i \in DOMAIN requests /\ requests'[i] = requests[i]
        BY <1>0, <2>2
    <2>4. m # n
        <3>1. i \in Nat /\ k \in Nat
            BY <1>0, <2>1, <2>3, EntryAt, MaxRequestsAssumption DEF EntryRef
        <3> QED
            BY <1>0, <2>1, <2>2, <2>3, <3>1
    <2>5. pending'[m] = pending[m]
        BY <1>0, <2>1, <2>4 DEF TypeOK
    <2> QED
        BY <1>1, <2>1, <2>2, <2>3, <2>5
<1>7. ASSUME NEW n \in Name, Unload(n)
      PROVE  Overlapped(i)'
    BY <1>1, <1>7 DEF Unload
<1>8. ASSUME NEW e \in Execution, StartExecution(e)
      PROVE  Overlapped(i)'
    BY <1>1, <1>8 DEF StartExecution
<1>9. CASE UNCHANGED vars
    BY <1>1, <1>9 DEF vars
<1> QED
    BY <1>2, <1>3, <1>4, <1>5, <1>6, <1>7, <1>8, <1>9 DEF Next

\* A request nobody decided on leaves the pending map in one way only: through
\* the approval of an older request of its name (approve() deletes by name).
THEOREM RegistryForgottenOnlyByOverlap == Spec => []ForgottenOnlyByOverlap
<1>1. Init => ForgottenOnlyByOverlap
    BY DEF Init, ForgottenOnlyByOverlap
<1> QED
    BY <1>1, RegistryInvariant, NextForgottenOnlyByOverlap, PTL DEF Spec

----------------------------------------------------------------------------
(* A debounced function.                                                   *)

\* The only armed timer is that of the last call, and the variable holds it:
\* OneTimerUnlessReentrant needs the second part, because a call clears only the
\* timer the variable holds.
DebounceIInv ==
  /\ timers \in [Call -> 0 .. Ms \cup {None}] /\ timer \in Call \cup {None} /\ calls \in 0 .. MaxCalls
  /\ reentered \/ \A c \in Armed : c = calls /\ c = timer

LEMMA NextDebounceIInv == DebounceIInv /\ [ScheduleNext]_scheduleVars => DebounceIInv'
<1> SUFFICES ASSUME DebounceIInv, [ScheduleNext]_scheduleVars PROVE DebounceIInv'
  OBVIOUS
<1>1. /\ timers \in [Call -> 0 .. Ms \cup {None}] /\ timer \in Call \cup {None} /\ calls \in 0 .. MaxCalls
      /\ reentered \/ \A c \in Call : timers[c] # None => c = calls /\ c = timer
      /\ MaxCalls \in Nat /\ Ms \in Nat /\ Ms > 0 /\ None \notin Nat
  BY ScheduleAssumption DEF DebounceIInv, Armed
<1>2. ASSUME UNCHANGED debounceVars PROVE DebounceIInv'
  BY <1>2 DEF debounceVars, DebounceIInv, Armed
<1>3. ASSUME NEW ts \in [Call -> 0 .. Ms \cup {None}], calls < MaxCalls
      PROVE  /\ Rearmed(ts) \in [Call -> 0 .. Ms \cup {None}]
             /\ calls + 1 \in Call
             /\ \A c \in Call : Rearmed(ts)[c] # None => c = calls + 1 \/ (c # timer /\ ts[c] # None)
  BY <1>1, <1>3 DEF Rearmed, Call
<1>4. CASE Debounced
  BY <1>1, <1>3, <1>4 DEF Debounced, DebounceIInv, Armed, Call
<1>5. ASSUME NEW c \in Call, DebounceFires(c) PROVE DebounceIInv'
  BY <1>1, <1>5 DEF DebounceFires, DebounceIInv, Armed
<1>6. ASSUME NEW c \in Call, DebounceThrows(c) PROVE DebounceIInv'
  BY <1>1, <1>6 DEF DebounceThrows, DebounceIInv, Armed
<1>7. ASSUME NEW c \in Call, DebounceReenters(c) PROVE DebounceIInv'
  <2>1. PICK ts \in [Call -> 0 .. Ms \cup {None}] : ts = [timers EXCEPT ![c] = None]
    BY <1>1
  <2>4. timers' = Rearmed(ts) /\ calls' = calls + 1 /\ calls < MaxCalls
    BY <1>7, <2>1 DEF DebounceReenters
  <2>2. timers' \in [Call -> 0 .. Ms \cup {None}] /\ calls' \in 0 .. MaxCalls
    BY <1>1, <1>3, <2>4
  <2>3. reentered' /\ timer' = None
    BY <1>7 DEF DebounceReenters
  <2> QED
    BY <2>2, <2>3 DEF DebounceIInv
<1>8. CASE TimePasses
  <2>1. \A c \in Call : Less(timers[c]) \in 0 .. Ms \cup {None} /\ (Less(timers[c]) # None => timers[c] # None)
    BY <1>1 DEF Less
  <2> QED
    BY <1>1, <1>8, <2>1 DEF TimePasses, DebounceIInv, Armed
<1>9. CASE RetryStart \/ AttemptReturns \/ AttemptFails \/ NextAttempt \/ Throttled
  BY <1>2, <1>9 DEF RetryStart, AttemptReturns, AttemptFails, NextAttempt, Throttled
<1>10. CASE IntervalStart \/ IntervalFires \/ IntervalCallEnds \/ IntervalStops
  BY <1>2, <1>10 DEF IntervalStart, IntervalFires, IntervalCallEnds, IntervalStops
<1>11. CASE UNCHANGED scheduleVars
  BY <1>2, <1>11 DEF scheduleVars
<1> QED
  BY <1>4, <1>5, <1>6, <1>7, <1>8, <1>9, <1>10, <1>11 DEF ScheduleNext, DebounceRuns

\* However calls, firings and exceptions follow each other, a debounced function
\* that does not call itself has one timer at most, that of its last call
\* (debounce() of schedule.ts).
THEOREM DebounceKeepsOneTimer == ScheduleInit /\ [][ScheduleNext]_scheduleVars => []OneTimerUnlessReentrant
<1>1. ScheduleInit => DebounceIInv
  BY ScheduleAssumption DEF ScheduleInit, DebounceIInv, Armed
<1>2. DebounceIInv => OneTimerUnlessReentrant
  BY DEF DebounceIInv, OneTimerUnlessReentrant
<1> QED
  BY <1>1, <1>2, NextDebounceIInv, PTL

----------------------------------------------------------------------------
(* A container whose output is streamed.                                   *)

\* killContainer lets one caller in, after the id has been looked for; when it is
\* past docker rm, the container is gone, unless it never had its id or its removal
\* failed; and none is made later, because docker's command has been ended.
StreamIInv ==
  /\ killing \in [Caller -> {"out", "kill", "rm", "directory"}]
  /\ \A c, d \in Caller : killing[c] # "out" /\ killing[d] # "out" => c = d
  /\ ~killed => answered = {} /\ \A c \in Caller : killing[c] = "out"
  /\ killed => client = "ended" /\ stream \notin {"new", "polling"}
  /\ killed /\ (\A c \in Caller : killing[c] \notin {"kill", "rm"}) =>
       container \in {"none", "removed"} \/ "container" \in failing \/ ~cid
  /\ killed /\ (\A c \in Caller : killing[c] = "out") => ~directory \/ "directory" \in failing

LEMMA NextStreamIInv == StreamIInv /\ [StreamNext]_streamVars => StreamIInv'
<1> SUFFICES ASSUME StreamIInv, [StreamNext]_streamVars PROVE StreamIInv'
  OBVIOUS
<1>1. CASE UNCHANGED streamVars
  BY <1>1 DEF streamVars, StreamIInv
<1>2. CASE DockerCreates \/ DockerRefuses \/ ContainerExits
  BY <1>2 DEF DockerCreates, DockerRefuses, ContainerExits, StreamIInv
<1>3. CASE StreamStart \/ PollEnds
  <2>1. ~killed /\ UNCHANGED <<killed, killing, answered>>
    BY <1>3 DEF StreamStart, PollEnds, StreamIInv
  <2> QED
    BY <2>1 DEF StreamIInv
<1>10. CASE IterationBegins
  BY <1>10 DEF IterationBegins, StreamIInv
<1>4. ASSUME NEW c \in Caller, Entered(c), stream' \notin {"new", "polling"},
             UNCHANGED <<container, cid, directory, failing>>
      PROVE  StreamIInv'
  <2>1. CASE killed
    BY <1>4, <2>1 DEF Entered, StreamIInv
  <2>2. CASE ~killed
    BY <1>4, <2>2 DEF Entered, StreamIInv
  <2> QED
    BY <2>1, <2>2
<1>5. CASE IterationEnds
  <2>1. Iterator \in Caller
    BY DEF Caller
  <2> QED
    BY <1>4, <1>5, <2>1 DEF IterationEnds
<1>6. ASSUME NEW c \in Killer, KillCalled(c) PROVE StreamIInv'
  <2>1. c \in Caller
    BY DEF Caller
  <2> QED
    BY <1>4, <1>6, <2>1 DEF KillCalled
<1>7. ASSUME NEW c \in Caller, DockerKill(c) PROVE StreamIInv'
  BY <1>7 DEF DockerKill, StreamIInv
<1>8. ASSUME NEW c \in Caller, DockerRm(c) PROVE StreamIInv'
  BY <1>8 DEF DockerRm, StreamIInv
<1>9. ASSUME NEW c \in Caller, KillEnds(c) PROVE StreamIInv'
  BY <1>9 DEF KillEnds, StreamIInv
<1> QED
  BY <1>1, <1>2, <1>3, <1>5, <1>6, <1>7, <1>8, <1>9, <1>10 DEF StreamNext, KillGoesOn

\* However many call kill(), and whenever the container is made, one of them
\* removes it and the directory (killContainer() of docker.ts).
THEOREM StreamLeavesNothing == StreamInit /\ [][StreamNext]_streamVars => []NothingLeftBehind
<1>1. StreamInit => StreamIInv
  BY DEF StreamInit, StreamIInv
<1>2. StreamIInv => NothingLeftBehind
  BY DEF StreamIInv, NothingLeftBehind
<1> QED
  BY <1>1, <1>2, NextStreamIInv, PTL

----------------------------------------------------------------------------
(* The dashboard's stream of audit entries.                                *)

\* What the page shows came over a connection for the session it was for.
Wanted == {[of |-> s, wanted |-> s] : s \in Watchable}

\* The one connection of an open page is the one that esRef names (the cleanup
\* closes no other), or there is none and the timer is armed; both are for the
\* session that is shown.
ViewIInv ==
  /\ watched \in Watchable \cup {None}
  /\ shown \in Seq(Wanted)
  /\ \/ watched = None /\ connections = {} /\ retry = None
     \/ watched # None /\ connections = {} /\ retry = [filter |-> watched]
     \/ /\ watched # None /\ retry = None
        /\ \E c : connections = {c} /\ c.id = esRef /\ c.filter = watched

\* Making a connection when there is no other.
LEMMA OneSource ==
  ASSUME NEW s, NewSource(s, {})
  PROVE  \E c : connections' = {c} /\ c.id = esRef' /\ c.filter = s
<1> DEFINE c(n) == [id |-> n, filter |-> s, open |-> FALSE, cut |-> FALSE]
<1>1. PICK n : connections' = {} \cup {c(n)} /\ esRef' = n
  BY DEF NewSource
<1>2. c(n).id = n /\ c(n).filter = s
  OBVIOUS
<1> HIDE DEF c
<1> QED
  BY <1>1, <1>2

LEMMA NextViewIInv == ViewIInv /\ [StreamViewNext]_streamViewVars => ViewIInv'
<1> SUFFICES ASSUME ViewIInv, [StreamViewNext]_streamViewVars PROVE ViewIInv'
  OBVIOUS
<1>0. None \notin Watchable /\ \A s \in Watchable : [filter |-> s] # None /\ [filter |-> s].filter = s
  BY ViewAssumption
<1>1. ASSUME NEW c \in connections
      PROVE  connections = {c} /\ watched \in Watchable /\ retry = None /\ c.id = esRef /\ c.filter = watched
  BY <1>1 DEF ViewIInv
<1>2. ASSUME NEW c \in connections, OnOpen(c) PROVE ViewIInv'
  <2> DEFINE d == [c EXCEPT !.open = TRUE]
  <2>1. connections' = (connections \ {c}) \cup {d} /\ UNCHANGED <<watched, esRef, retry, shown>>
    BY <1>2 DEF OnOpen
  <2>2. d.id = c.id /\ d.filter = c.filter
    OBVIOUS
  <2> HIDE DEF d
  <2> QED
    BY <1>0, <1>1, <2>1, <2>2 DEF ViewIInv
<1>3. ASSUME NEW c \in connections, OnMessage(c) PROVE ViewIInv'
  <2> DEFINE new == [of |-> c.filter, wanted |-> watched]
             k == IF Len(shown) < MaxShown THEN Len(shown) + 1 ELSE MaxShown
             all == <<new>> \o shown
  <2>1. shown' = SubSeq(all, 1, k) /\ UNCHANGED <<watched, connections, esRef, retry>>
    BY <1>3 DEF OnMessage
  <2>2. new \in Wanted
    BY <1>1 DEF Wanted
  <2>3. shown \in Seq(Wanted) /\ Len(shown) \in Nat /\ MaxShown \in Nat
    BY ViewAssumption DEF ViewIInv
  <2> HIDE DEF new
  <2>4. all \in Seq(Wanted) /\ Len(all) = Len(shown) + 1
    BY <2>2, <2>3
  <2>5. k \in Nat /\ k <= Len(shown) + 1
    BY <2>3
  <2> HIDE DEF all, k
  <2>6. SubSeq(all, 1, k) \in Seq(Wanted)
    BY <2>3, <2>4, <2>5
  <2> QED
    BY <2>1, <2>6 DEF ViewIInv
<1>4. ASSUME NEW c \in connections, OnError(c) PROVE ViewIInv'
  <2>1. connections' = {} /\ retry' = [filter |-> watched] /\ UNCHANGED <<watched, shown>>
    BY <1>1, <1>4 DEF OnError
  <2> QED
    BY <1>0, <1>1, <2>1 DEF ViewIInv
<1>5. CASE RetryFires
  <2>1. connections = {} /\ watched \in Watchable /\ retry.filter = watched
    BY <1>0, <1>5 DEF RetryFires, ViewIInv
  <2>2. \E c : connections' = {c} /\ c.id = esRef' /\ c.filter = watched
    BY <1>5, <2>1, OneSource DEF RetryFires
  <2>3. watched' = watched /\ retry' = None /\ shown' = shown /\ watched # None
    BY <1>0, <1>5, <2>1 DEF RetryFires
  <2> QED
    BY <2>1, <2>2, <2>3 DEF ViewIInv
<1>6. ASSUME NEW s \in Watchable \cup {None}, ChangesView(s) PROVE ViewIInv'
  <2>1. {c \in connections : c.id # esRef} = {}
    BY <1>1
  <2>2. watched' = s /\ retry' = None /\ shown' = shown
    BY <1>6 DEF ChangesView
  <2>3. CASE s = None
    <3>1. connections' = {}
      BY <1>6, <2>1, <2>3 DEF ChangesView
    <3> QED
      BY <2>2, <2>3, <3>1 DEF ViewIInv
  <2>4. CASE s # None
    <3>1. NewSource(s, {})
      BY <1>6, <2>1, <2>4 DEF ChangesView
    <3>2. \E c : connections' = {c} /\ c.id = esRef' /\ c.filter = s
      BY <3>1, OneSource
    <3> QED
      BY <2>2, <2>4, <3>2 DEF ViewIInv
  <2> QED
    BY <2>3, <2>4
<1>7. CASE ServerStops
  <2>1. connections' = {[c EXCEPT !.cut = TRUE] : c \in connections} /\ UNCHANGED <<watched, esRef, retry, shown>>
    BY <1>7 DEF ServerStops
  <2>2. CASE connections = {}
    BY <2>1, <2>2 DEF ViewIInv
  <2>3. ASSUME NEW c \in connections PROVE ViewIInv'
    <3> DEFINE d == [c EXCEPT !.cut = TRUE]
    <3>1. connections' = {d}
      BY <1>1, <2>1
    <3>2. d.id = c.id /\ d.filter = c.filter
      OBVIOUS
    <3> HIDE DEF d
    <3> QED
      BY <1>0, <1>1, <2>1, <3>1, <3>2 DEF ViewIInv
  <2> QED
    BY <2>2, <2>3
<1>8. CASE ServerStarts
  BY <1>8 DEF ServerStarts, ViewIInv
<1>9. CASE UNCHANGED streamViewVars
  BY <1>9 DEF streamViewVars, outsideVars, ViewIInv
<1> QED
  BY <1>2, <1>3, <1>4, <1>5, <1>6, <1>7, <1>8, <1>9 DEF StreamViewNext

LEMMA ViewIsOneStream == ViewIInv => OneStream
<1> SUFFICES ASSUME ViewIInv PROVE OneStream
  OBVIOUS
<1>0. None \notin Watchable /\ \A s \in Watchable : [filter |-> s] # None /\ [filter |-> s].filter = s
  BY ViewAssumption
<1>1. \A n \in 1 .. Len(shown) : shown[n].of = shown[n].wanted
  <2>1. \A r \in Wanted : r.of = r.wanted
    BY DEF Wanted
  <2>2. \A n \in 1 .. Len(shown) : shown[n] \in Wanted
    BY DEF ViewIInv
  <2> QED
    BY <2>1, <2>2
<1>2. CASE connections = {}
  <2>1. Cardinality(connections) = 0
    BY <1>2, FS_EmptySet
  <2> QED
    BY <1>0, <1>1, <1>2, <2>1 DEF ViewIInv, OneStream
<1>3. ASSUME NEW c, connections = {c} PROVE OneStream
  <2>1. Cardinality(connections) = 1
    BY <1>3, FS_Singleton
  <2>2. watched # None /\ retry = None /\ c.filter = watched
    BY <1>3 DEF ViewIInv
  <2> QED
    BY <1>1, <1>3, <2>1, <2>2 DEF OneStream
<1> QED
  BY <1>2, <1>3 DEF ViewIInv

\* However failures of the stream, timers of retries and changes of the session
\* follow each other, a page has one connection, or will have, and for the session
\* it shows (the hook use-audit-stream).
THEOREM ViewKeepsOneStream == StreamViewInit /\ [][StreamViewNext]_streamViewVars => []OneStream
<1>1. StreamViewInit => ViewIInv
  <2> SUFFICES ASSUME StreamViewInit PROVE ViewIInv
    OBVIOUS
  <2> DEFINE c == [id |-> 1, filter |-> watched, open |-> FALSE, cut |-> FALSE]
  <2>1. connections = {c} /\ c.id = esRef /\ c.filter = watched
    BY DEF StreamViewInit
  <2>2. watched \in Watchable /\ retry = None /\ shown = <<>> /\ watched # None
    BY ViewAssumption DEF StreamViewInit
  <2>3. shown \in Seq(Wanted)
    BY <2>2
  <2> HIDE DEF c
  <2> QED
    BY <2>1, <2>2, <2>3 DEF ViewIInv
<1> QED
  BY <1>1, NextViewIInv, ViewIsOneStream, PTL

----------------------------------------------------------------------------
(* A command and its output.                                               *)

\* Nobody is handed the pipes of an output that has ended; a signal comes from the
\* timer, which is cleared when the result is made.
CommandIInv ==
  /\ waiting # "output" => holders = {}
  /\ signalled => limit = "fired"
  /\ result = "success" => command = "zero" /\ waiting = None /\ limit \notin {"armed", "fired"}

LEMMA NextCommandIInv == CommandIInv /\ [ProcessNext]_processVars => CommandIInv'
<1> SUFFICES ASSUME CommandIInv, [ProcessNext]_processVars PROVE CommandIInv'
  OBVIOUS
<1>1. CASE CommandForks \/ HeirEnds \/ CommandCloses
  BY <1>1 DEF CommandForks, HeirEnds, CommandCloses, CommandIInv
<1>2. CASE CommandExits("zero") \/ CommandExits("other") \/ CommandDies
  BY <1>2 DEF CommandExits, CommandDies, CommandIInv
<1>3. CASE TimerFires
  BY <1>3 DEF TimerFires, CommandIInv
<1>4. CASE OutputEnds
  BY <1>4, ResultAssumption DEF OutputEnds, CommandIInv
<1>5. CASE ProcessReturns
  BY <1>5, ResultAssumption DEF ProcessReturns, CommandIInv
<1>6. CASE UNCHANGED processVars
  BY <1>6 DEF processVars, CommandIInv
<1> QED
  BY <1>1, <1>2, <1>3, <1>4, <1>5, <1>6 DEF ProcessNext

\* Whoever holds the output open, and whenever the timer fires, a result that says
\* success is of a command that exited with 0 untold, its output read to the end
\* (spawn() of process.ts, runDocker() of docker.ts).
THEOREM CommandSuccessIsItsOwn == ProcessInit /\ [][ProcessNext]_processVars => []SuccessIsItsOwn
<1>1. ProcessInit => CommandIInv
  BY ResultAssumption DEF ProcessInit, CommandIInv
<1>2. CommandIInv => SuccessIsItsOwn
  BY ResultAssumption DEF CommandIInv, SuccessIsItsOwn
<1> QED
  BY <1>1, <1>2, NextCommandIInv, PTL

----------------------------------------------------------------------------
(* Waiting for a port.                                                     *)

\* A port that opened is seen at the next look: within a pause it has been open
\* for no longer than the pause has lasted.
PortIInv ==
  /\ pausing \in 0 .. Pause
  /\ turn \in {"new", "status"} => port \in {None, 0}
  /\ turn = "pausing" => port \in {None} \cup (0 .. Pause - pausing)
  /\ turn \in {"connect", "false"} => port \in {None} \cup (0 .. Pause)

LEMMA NextPortIInv == PortIInv /\ [WaitNext]_waitVars => PortIInv'
<1> SUFFICES ASSUME PortIInv, [WaitNext]_waitVars PROVE PortIInv'
  OBVIOUS
<1>0. Pause \in Nat /\ pausing \in 0 .. Pause
  BY WaitAssumption DEF PortIInv
<1>1. CASE PortOpens \/ DaemonExits
  BY <1>0, <1>1 DEF PortOpens, DaemonExits, PortIInv
<1>2. CASE WaitStart \/ PauseEnds
  BY <1>0, <1>2 DEF WaitStart, PauseEnds, LoopTurn, PortIInv
<1>3. CASE Connects
  BY <1>0, <1>3 DEF Connects, PortIInv
<1>4. CASE StatusAnswers \/ StatusThrows
  BY <1>0, <1>4 DEF StatusAnswers, StatusThrows, PortIInv
<1>5. CASE WaitTick
  BY <1>0, <1>5, WaitAssumption DEF WaitTick, PortIInv
<1>6. CASE UNCHANGED waitVars
  BY <1>6 DEF waitVars, PortIInv
<1> QED
  BY <1>1, <1>2, <1>3, <1>4, <1>5, <1>6 DEF WaitNext

\* waitForPort() answers false of a container that runs only if its port has been
\* open for one pause at most (createDaemonHandle() of docker.ts).
THEOREM PortIsFoundUnlessLate == WaitInit /\ [][WaitNext]_waitVars => []FoundUnlessLate
<1>1. WaitInit => PortIInv
  BY WaitAssumption DEF WaitInit, PortIInv
<1>2. PortIInv => FoundUnlessLate
  BY DEF PortIInv, FoundUnlessLate
<1> QED
  BY <1>1, <1>2, NextPortIInv, PTL

----------------------------------------------------------------------------
(* Contexts: for every set of items, patterns and links, what a            *)
(* single capability accepts is about the same thing as the capability     *)
(* itself, and that the parent accepts, since derive() has checked it.     *)

\* A demand has one item.
LEMMA DemandShape ==
  ASSUME NEW d \in DemandSet
  PROVE  /\ d = [kind |-> d.kind, items |-> d.items, ports |-> d.ports]
         /\ d.kind \in Kind /\ d.items[1] \in Item /\ d.items = <<d.items[1]>>
         /\ d.items # <<>> /\ Len(d.items) = 1
         /\ d.ports = <<>> <=> d.kind \notin HostKinds
         /\ d.ports # <<>> => d.ports[1] \in Port /\ d.ports = <<d.ports[1]>> /\ Len(d.ports) = 1
  BY DEF DemandSet

\* A single path accepts only what leads where it leads.
LEMMA SinglePath ==
  ASSUME NEW h, Single(h), h.kind \in PathKinds, NEW d \in DemandSet, CheckPathCapability(h, d)
  PROVE  RealPath[d.items[1]] = RealPath[h.items[1]]
<1> DEFINE i == d.items[1]
           j == h.items[1]
<1>0. h \in DemandSet
  BY DEF Single
<1>1. d.items[1] \in Item /\ h.items[1] \in Item
  BY <1>0, DemandShape
<1>2. PICK path \in {i, RealPath[i]}, pattern \in {j, RealPattern[j]} : <<path, pattern>> \in Matches
  BY DEF CheckPathCapability
<1>3. path \in Item /\ RealPath[path] = RealPath[i]
  BY <1>1, CapabilityAssumption
<1>4. h.kind # "os:interact"
  BY DEF PathKinds
<1>5. path = pattern
  BY <1>2, <1>3, <1>4 DEF Single, Plain
<1>6. RealPath[pattern] = RealPath[j]
  BY <1>1, CapabilityAssumption
<1> QED
  BY <1>3, <1>5, <1>6

\* What a single capability accepts is about what the capability is about.
LEMMA SingleAccepts ==
  ASSUME NEW h, Single(h), h.kind # "os:interact", NEW d \in DemandSet, CheckCapability(h, d)
  PROVE  About(d) = About(h)
<1>1. h \in DemandSet /\ Plain(h.items[1]) /\ h.items[1] # Star
  BY DEF Single, Plain
<1>2. h.kind = d.kind
  BY DEF CheckCapability
<1>3. CASE h.kind \in PathKinds
  <2>1. CheckPathCapability(h, d)
    BY <1>3 DEF CheckCapability, PathKinds, ListKinds, HostKinds, GlobKinds
  <2>2. d.ports = <<>> /\ h.ports = <<>>
    BY <1>1, <1>2, <1>3, DemandShape DEF PathKinds, HostKinds
  <2> QED
    BY <1>2, <1>3, <2>1, <2>2, SinglePath DEF About
<1>4. CASE h.kind \in HostKinds
  <2>1. CheckHost(h, d)
    BY <1>4 DEF CheckCapability, PathKinds, ListKinds, HostKinds, GlobKinds
  <2>2. ~Has(h, Star)
    BY <1>1, DemandShape DEF Has
  <2>3. Has(h, d.items[1]) /\ CheckPorts(h, d)
    BY <2>1, <2>2 DEF CheckHost
  <2>4. d.items[1] = h.items[1]
    BY <1>1, <2>3, DemandShape DEF Has
  <2>5. h.ports # <<>> /\ d.ports # <<>>
    BY <1>1, <1>2, <1>4, DemandShape
  <2>6. d.ports = h.ports
    BY <1>1, <2>3, <2>5, DemandShape DEF CheckPorts
  <2>7. h.kind \notin PathKinds
    BY <1>4 DEF PathKinds, HostKinds
  <2> QED
    BY <1>2, <2>4, <2>6, <2>7 DEF About
<1>5. CASE h.kind \notin PathKinds \cup HostKinds
  <2>1. d.items[1] = h.items[1]
    <3>1. CheckList(h, d) => Has(h, d.items[1])
      BY <1>1, DemandShape DEF CheckList, Has
    <3>2. CheckGlobs(h, d) => d.items[1] = h.items[1]
      <4>1. Len(h.items) = 1 /\ d.items[1] \in Item
        BY <1>1, DemandShape
      <4>2. \A n \in 1 .. Len(h.items) : h.items[n] = h.items[1]
        BY <4>1
      <4>3. ~Has(h, Star)
        BY <1>1, <4>2 DEF Has
      <4> QED
        BY <1>1, <4>1, <4>2, <4>3 DEF CheckGlobs, Plain
    <3>3. CheckNetListen(h, d) => d.items[1] = h.items[1]
      BY <1>1 DEF CheckNetListen
    <3>4. Has(h, d.items[1]) => d.items[1] = h.items[1]
      BY <1>1, DemandShape DEF Has
    <3> QED
      BY <1>5, <3>1, <3>2, <3>3, <3>4 DEF CheckCapability
  <2>2. d.ports = <<>> /\ h.ports = <<>>
    BY <1>1, <1>2, <1>5, DemandShape
  <2> QED
    BY <1>2, <1>5, <2>1, <2>2 DEF About
<1> QED
  BY <1>3, <1>4, <1>5

\* Single capabilities that a set accepts add nothing to what the set allows.
LEMMA AcceptedAddsNothing ==
  ASSUME NEW caps, NEW derived, \A c \in derived : Single(c) /\ Check(caps, c)
  PROVE  Authority(derived) \subseteq Authority(caps)
<1> SUFFICES ASSUME NEW d \in DemandSet, NEW h \in derived, CheckCapability(h, d)
             PROVE  About(d) \in Authority(caps)
  BY DEF Authority, Check
<1>1. Single(h) /\ h \in DemandSet /\ Check(caps, h) /\ h.kind = d.kind
  BY DEF Single, CheckCapability
<1>2. CASE h.kind = "os:interact"
  <2>1. PICK g \in caps : CheckCapability(g, h)
    BY <1>1 DEF Check
  <2>2. CheckCapability(g, d)
    BY <1>1, <1>2, <2>1 DEF CheckCapability, PathKinds, ListKinds, HostKinds, GlobKinds
  <2> QED
    BY <2>2 DEF Authority, Check
<1>3. CASE h.kind # "os:interact"
  <2>1. About(d) = About(h)
    BY <1>1, <1>3, SingleAccepts
  <2> QED
    BY <1>1, <2>1 DEF Authority
<1> QED
  BY <1>2, <1>3

ContextsIInv == ContextsTypeOK /\ DerivedWithin

\* A new context leaves the others as they are.
LEMMA NextContextsIInv == ContextsIInv /\ [ContextsNext]_contexts => ContextsIInv'
<1> SUFFICES ASSUME ContextsIInv, [ContextsNext]_contexts PROVE ContextsIInv'
  OBVIOUS
<1> DEFINE Context == [caps : SUBSET Offered, parent : Nat]
           Within(seq, c) ==
             seq[c].parent # 0 /\ (\A cap \in seq[c].caps : Single(cap)) =>
               Authority(seq[c].caps) \subseteq Authority(seq[seq[c].parent].caps)
<1>1. /\ contexts \in Seq(Context) /\ Len(contexts) \in Nat
      /\ \A c \in 1 .. Len(contexts) : contexts[c].caps \subseteq Offered /\ contexts[c].parent \in 0 .. c - 1
  BY DEF ContextsIInv, ContextsTypeOK
<1>6. \A c \in 1 .. Len(contexts) : Within(contexts, c)
  BY Zenon DEF ContextsIInv, DerivedWithin
<1>2. CASE UNCHANGED contexts
  BY <1>2 DEF ContextsIInv, ContextsTypeOK, DerivedWithin
<1>3. ASSUME NEW caps \in SUBSET Offered, NEW p \in 0 .. Len(contexts), Len(contexts) < MaxContexts,
             contexts' = Append(contexts, [caps |-> caps, parent |-> p]),
             p # 0 => \A c \in caps : Check(contexts[p].caps, c)
      PROVE  ContextsIInv'
  <2> DEFINE new == [caps |-> caps, parent |-> p]
  <2>1. new \in Context /\ new.caps = caps /\ new.parent = p
    BY <1>1
  <2> HIDE DEF new
  <2>2. /\ contexts' \in Seq(Context) /\ Len(contexts') = Len(contexts) + 1
        /\ contexts'[Len(contexts) + 1] = new
        /\ \A c \in 1 .. Len(contexts) : contexts'[c] = contexts[c]
    BY <1>1, <1>3, <2>1 DEF new
  <2>3. Len(contexts') <= MaxContexts
    BY <1>1, <1>3, <2>2, CapabilityAssumption
  <2>4. ASSUME NEW c \in 1 .. Len(contexts')
        PROVE  contexts'[c].caps \subseteq Offered /\ contexts'[c].parent \in 0 .. c - 1
    <3>1. CASE c = Len(contexts) + 1
      BY <1>1, <2>1, <2>2, <3>1
    <3>2. CASE c \in 1 .. Len(contexts)
      BY <1>1, <2>2, <3>2
    <3> QED
      BY <1>1, <2>2, <3>1, <3>2
  <2>5. ASSUME NEW c \in 1 .. Len(contexts')
        PROVE  Within(contexts', c)
    <3>1. CASE c = Len(contexts) + 1
      <4> SUFFICES ASSUME p # 0, \A cap \in caps : Single(cap)
                   PROVE  Authority(caps) \subseteq Authority(contexts'[p].caps)
        BY <2>1, <2>2, <3>1
      <4>1. contexts'[p] = contexts[p]
        BY <1>1, <1>3, <2>2
      <4>2. Authority(caps) \subseteq Authority(contexts[p].caps)
        BY <1>3, AcceptedAddsNothing
      <4> QED
        BY <4>1, <4>2
    <3>2. CASE c \in 1 .. Len(contexts)
      <4>1. contexts'[c] = contexts[c] /\ Within(contexts, c)
        BY <1>6, <2>2, <3>2
      <4>2. contexts[c].parent # 0 => contexts'[contexts[c].parent] = contexts[contexts[c].parent]
        <5>1. contexts[c].parent \in 0 .. c - 1
          BY <1>1, <3>2
        <5>2. contexts[c].parent # 0 => contexts[c].parent \in 1 .. Len(contexts)
          BY <1>1, <3>2, <5>1
        <5> QED
          BY <2>2, <5>2
      <4> QED
        BY <4>1, <4>2
    <3> QED
      BY <1>1, <2>2, <3>1, <3>2
  <2>6. DerivedWithin'
    BY <2>5 DEF DerivedWithin
  <2>7. ContextsTypeOK'
    BY <2>2, <2>3, <2>4 DEF ContextsTypeOK
  <2> QED
    BY <2>6, <2>7 DEF ContextsIInv
<1>4. ASSUME NEW caps \in SUBSET Offered, CreateContext(caps)
      PROVE  ContextsIInv'
  <2>1. 0 \in 0 .. Len(contexts) /\ Len(contexts) < MaxContexts
    BY <1>1, <1>4 DEF CreateContext
  <2>2. contexts' = Append(contexts, [caps |-> caps, parent |-> 0])
    BY <1>4 DEF CreateContext
  <2> QED
    BY <1>3, <2>1, <2>2
<1>5. ASSUME NEW subset \in SUBSET Offered, NEW parent \in 1 .. Len(contexts), Derive(parent, subset)
      PROVE  ContextsIInv'
  <2> DEFINE allowed == {requested \in subset : Check(contexts[parent].caps, requested)}
  <2>1. allowed \in SUBSET Offered /\ parent \in 0 .. Len(contexts)
    BY <1>1
  <2>2. \A c \in allowed : Check(contexts[parent].caps, c)
    OBVIOUS
  <2>3. Len(contexts) < MaxContexts /\ contexts' = Append(contexts, [caps |-> allowed, parent |-> parent])
    BY <1>5 DEF Derive
  <2> HIDE DEF allowed
  <2> QED
    BY <1>3, <2>1, <2>2, <2>3
<1> QED
  BY <1>2, <1>4, <1>5 DEF ContextsNext

\* No chain of derivations, of any contexts and capabilities, gives a context an
\* authority that the one it was derived from lacks (derive() in context.ts).
THEOREM ContextsStayWithin == ContextsSpec => []DerivedWithin
<1>1. ContextsInit => ContextsIInv
  BY CapabilityAssumption DEF ContextsInit, ContextsIInv, ContextsTypeOK, DerivedWithin
<1>2. ContextsIInv => DerivedWithin
  BY DEF ContextsIInv
<1> QED
  BY <1>1, <1>2, NextContextsIInv, PTL DEF ContextsSpec

(* Every part keeps to its types.                                          *)

LEMMA PowersOfTwo ==
  ASSUME NEW n \in Nat
  PROVE  2 ^ n \in Nat
<1>1. IsFiniteSet(1 .. n) /\ Cardinality(1 .. n) = n
  BY FS_Interval
<1>2. IsFiniteSet(SUBSET (1 .. n)) /\ Cardinality(SUBSET (1 .. n)) = 2 ^ n
  BY <1>1, FS_SUBSET
<1> QED
  BY <1>2, FS_CardinalityType

\* A debounced function, where only a call that was made has a timer; a retry; an
\* interval.
DebounceTypes ==
  /\ timers \in [Call -> 0 .. Ms \cup {None}] /\ timer \in Call \cup {None}
  /\ calls \in 0 .. MaxCalls /\ ran \subseteq 1 .. calls /\ reentered \in BOOLEAN
  /\ \A c \in Call : timers[c] # None => c <= calls
RetryTypes ==
  attempt \in Nat /\ trying \in {"idle", "called", "pausing", "returned", "thrown"} /\ pause \in Nat
IntervalTypes == ticking \in 0 .. Ms \cup {None} /\ busy \in 0 .. MaxCalls

ScheduleIInv == DebounceTypes /\ sinceRun \in 0 .. Ms /\ RetryTypes /\ IntervalTypes

LEMMA ScheduleBegins == ScheduleInit => ScheduleIInv
<1> SUFFICES ASSUME ScheduleInit PROVE ScheduleIInv
  OBVIOUS
<1>1. Ms \in Nat /\ MaxCalls \in Nat /\ None \notin Nat
  BY ScheduleAssumption
<1>2. DebounceTypes
  <2>1. timers = [c \in Call |-> None] /\ timer = None /\ calls = 0 /\ ran = {} /\ reentered = FALSE
    BY DEF ScheduleInit
  <2>2. timers \in [Call -> 0 .. Ms \cup {None}] /\ \A c \in Call : timers[c] = None
    BY <2>1
  <2>3. timer \in Call \cup {None} /\ calls \in 0 .. MaxCalls /\ ran \subseteq 1 .. calls
    BY <1>1, <2>1
  <2>4. reentered \in BOOLEAN
    BY <2>1
  <2>5. \A c \in Call : timers[c] # None => c <= calls
    BY <2>2
  <2> QED
    BY <2>2, <2>3, <2>4, <2>5 DEF DebounceTypes
<1>3. sinceRun \in 0 .. Ms /\ RetryTypes /\ IntervalTypes
  BY <1>1 DEF ScheduleInit, RetryTypes, IntervalTypes
<1> QED
  BY <1>2, <1>3 DEF ScheduleIInv

LEMMA DebounceTyped ==
  ASSUME DebounceTypes, Debounced \/ DebounceRuns
  PROVE  DebounceTypes'
<1>1. /\ timers \in [Call -> 0 .. Ms \cup {None}] /\ timer \in Call \cup {None}
      /\ calls \in 0 .. MaxCalls /\ ran \subseteq 1 .. calls /\ reentered \in BOOLEAN
      /\ \A c \in Call : timers[c] # None => c <= calls
      /\ MaxCalls \in Nat /\ Ms \in Nat /\ None \notin Nat
  BY ScheduleAssumption DEF DebounceTypes
<1>2. ASSUME NEW ts \in [Call -> 0 .. Ms \cup {None}], calls < MaxCalls,
             \A c \in Call : ts[c] # None => c <= calls
      PROVE  /\ Rearmed(ts) \in [Call -> 0 .. Ms \cup {None}]
             /\ calls + 1 \in Call /\ calls + 1 \in 0 .. MaxCalls
             /\ \A c \in Call : Rearmed(ts)[c] # None => c <= calls + 1
  BY <1>1, <1>2 DEF Rearmed, Call
<1>3. CASE Debounced
  <2>1. /\ timers' = Rearmed(timers) /\ timer' = calls + 1 /\ calls' = calls + 1 /\ calls < MaxCalls
        /\ ran' = ran /\ reentered' = reentered
    BY <1>3 DEF Debounced
  <2>2. /\ timers' \in [Call -> 0 .. Ms \cup {None}] /\ calls' \in 0 .. MaxCalls /\ timer' \in Call
        /\ \A c \in Call : timers'[c] # None => c <= calls'
    BY <1>1, <1>2, <2>1
  <2>3. ran' \subseteq 1 .. calls'
    BY <1>1, <2>1
  <2> QED
    BY <1>1, <2>1, <2>2, <2>3 DEF DebounceTypes
<1>4. ASSUME NEW c \in Call, timers[c] = 0
      PROVE  ran \cup {c} \subseteq 1 .. calls
  <2>1. timers[c] # None /\ c \in Nat /\ c >= 1
    BY <1>1, <1>4 DEF Call
  <2> QED
    BY <1>1, <2>1
<1>5. ASSUME NEW c \in Call, DebounceFires(c) \/ DebounceThrows(c)
      PROVE  DebounceTypes'
  <2>1. /\ timers' = [timers EXCEPT ![c] = None] /\ timer' \in {None, timer} /\ ran' = ran \cup {c}
        /\ calls' = calls /\ reentered' = reentered /\ timers[c] = 0
    BY <1>5 DEF DebounceFires, DebounceThrows
  <2>2. /\ timers' \in [Call -> 0 .. Ms \cup {None}]
        /\ \A d \in Call : timers'[d] # None => d <= calls'
    BY <1>1, <2>1
  <2> QED
    BY <1>1, <1>4, <2>1, <2>2 DEF DebounceTypes
<1>6. ASSUME NEW c \in Call, DebounceReenters(c)
      PROVE  DebounceTypes'
  <2>1. PICK ts : ts = [timers EXCEPT ![c] = None]
    OBVIOUS
  <2>2. /\ timers' = Rearmed(ts) /\ calls' = calls + 1 /\ calls < MaxCalls /\ timers[c] = 0
        /\ timer' = None /\ ran' = ran \cup {c} /\ reentered' = TRUE
    BY <1>6, <2>1 DEF DebounceReenters
  <2>3. /\ ts \in [Call -> 0 .. Ms \cup {None}]
        /\ \A d \in Call : ts[d] # None => d <= calls
    BY <1>1, <2>1
  <2>4. /\ timers' \in [Call -> 0 .. Ms \cup {None}] /\ calls' \in 0 .. MaxCalls
        /\ \A d \in Call : timers'[d] # None => d <= calls'
    BY <1>2, <2>2, <2>3
  <2>5. ran' \subseteq 1 .. calls'
    BY <1>1, <1>4, <2>2
  <2> QED
    BY <2>2, <2>4, <2>5 DEF DebounceTypes
<1> QED
  BY <1>3, <1>5, <1>6 DEF DebounceRuns

LEMMA ScheduleKeepsTypes == ScheduleIInv /\ [ScheduleNext]_scheduleVars => ScheduleIInv'
<1> SUFFICES ASSUME ScheduleIInv, [ScheduleNext]_scheduleVars PROVE ScheduleIInv'
  OBVIOUS
<1>1. /\ DebounceTypes /\ sinceRun \in 0 .. Ms /\ RetryTypes /\ IntervalTypes
      /\ MaxCalls \in Nat /\ Ms \in Nat /\ BaseDelay \in Nat /\ None \notin Nat
  BY ScheduleAssumption DEF ScheduleIInv
<1>2. UNCHANGED debounceVars => DebounceTypes'
  BY <1>1 DEF debounceVars, DebounceTypes
<1>3. UNCHANGED throttleVars => sinceRun' \in 0 .. Ms
  BY <1>1 DEF throttleVars
<1>4. UNCHANGED retryVars => RetryTypes'
  BY <1>1 DEF retryVars, RetryTypes
<1>5. UNCHANGED intervalVars => IntervalTypes'
  BY <1>1 DEF intervalVars, IntervalTypes
<1>6. CASE Debounced \/ DebounceRuns
  <2>1. UNCHANGED <<throttleVars, retryVars, intervalVars>>
    BY <1>6 DEF Debounced, DebounceRuns, DebounceFires, DebounceThrows, DebounceReenters
  <2> QED
    BY <1>1, <1>3, <1>4, <1>5, <1>6, <2>1, DebounceTyped DEF ScheduleIInv
<1>7. CASE Throttled
  BY <1>1, <1>2, <1>4, <1>5, <1>7 DEF ScheduleIInv, Throttled
<1>8. CASE RetryStart \/ AttemptReturns \/ AttemptFails \/ NextAttempt
  <2>1. UNCHANGED <<debounceVars, throttleVars, intervalVars>>
    BY <1>8 DEF RetryStart, AttemptReturns, AttemptFails, NextAttempt
  <2>2. RetryTypes'
    <3>1. attempt \in Nat /\ pause \in Nat /\ trying \in {"idle", "called", "pausing", "returned", "thrown"}
      BY <1>1 DEF RetryTypes
    <3>2. PICK power \in Nat : power = 2 ^ attempt
      BY <3>1, PowersOfTwo
    <3>3. BaseDelay * power \in Nat
      BY <1>1
    <3>4. CASE AttemptFails
      BY <3>1, <3>2, <3>3, <3>4 DEF AttemptFails, RetryTypes
    <3>5. CASE RetryStart \/ AttemptReturns \/ NextAttempt
      BY <3>1, <3>5 DEF RetryStart, AttemptReturns, NextAttempt, RetryTypes
    <3> QED
      BY <1>8, <3>4, <3>5
  <2> QED
    BY <1>2, <1>3, <1>5, <2>1, <2>2 DEF ScheduleIInv
<1>9. CASE IntervalStart \/ IntervalFires \/ IntervalCallEnds \/ IntervalStops
  <2>1. UNCHANGED <<debounceVars, throttleVars, retryVars>>
    BY <1>9 DEF IntervalStart, IntervalFires, IntervalCallEnds, IntervalStops
  <2>2. IntervalTypes'
    BY <1>1, <1>9 DEF IntervalTypes, IntervalStart, IntervalFires, IntervalCallEnds, IntervalStops
  <2> QED
    BY <1>2, <1>3, <1>4, <2>1, <2>2 DEF ScheduleIInv
<1>10. CASE TimePasses
  <2>1. ASSUME NEW t \in 0 .. Ms \cup {None}
        PROVE  Less(t) \in 0 .. Ms \cup {None} /\ (Less(t) # None => t # None)
    BY <1>1, <2>1 DEF Less
  <2>2. /\ timers' = [c \in Call |-> Less(timers[c])]
        /\ UNCHANGED <<timer, calls, ran, reentered, attempt, trying, busy>>
        /\ sinceRun' = IF sinceRun < Ms THEN sinceRun + 1 ELSE Ms
        /\ pause' = Less(pause) /\ ticking' = Less(ticking)
    BY <1>10 DEF TimePasses
  <2>3. DebounceTypes'
    BY <1>1, <2>1, <2>2 DEF DebounceTypes
  <2>4. sinceRun' \in 0 .. Ms
    BY <1>1, <2>2
  <2>5. RetryTypes'
    BY <1>1, <2>2 DEF RetryTypes, Less
  <2>6. IntervalTypes'
    BY <1>1, <2>1, <2>2 DEF IntervalTypes
  <2> QED
    BY <2>3, <2>4, <2>5, <2>6 DEF ScheduleIInv
<1>11. CASE UNCHANGED scheduleVars
  BY <1>2, <1>3, <1>4, <1>5, <1>11 DEF ScheduleIInv, scheduleVars
<1> QED
  BY <1>6, <1>7, <1>8, <1>9, <1>10, <1>11 DEF ScheduleNext

\* Whatever is called, thrown and waited for, the helpers have timers and counts
\* within what they were given (debounce, throttle, retry, interval of schedule.ts).
THEOREM ScheduleTyped == ScheduleInit /\ [][ScheduleNext]_scheduleVars => []ScheduleTypeOK
<1>1. ScheduleIInv => ScheduleTypeOK
  BY DEF ScheduleIInv, DebounceTypes, RetryTypes, IntervalTypes, ScheduleTypeOK
<1> QED
  BY <1>1, ScheduleBegins, ScheduleKeepsTypes, PTL

\* oauth2DeviceFlow() waits for no longer than it was told.
LEMMA FlowTyped == FlowInit /\ [][FlowNext]_flowVars => []FlowTypeOK
<1> DEFINE Waits == 0 .. Interval \cup 0 .. SlowDown
           Types == /\ flow \in {"new", "device", "waiting", "slowed", "polling", "token", "failed", "timed out"}
                    /\ left \in 0 .. Timeout /\ wait \in Waits
<1>1. /\ Timeout \in Nat /\ Timeout \in 0 .. Timeout /\ 0 \in 0 .. Timeout
      /\ 0 \in Waits /\ Interval \in Waits /\ SlowDown \in Waits
      /\ \A n \in Waits : OneLess(n) \in Waits
  BY FlowAssumption DEF OneLess
<1>2. \A n \in 0 .. Timeout : OneLess(n) \in 0 .. Timeout
  BY <1>1 DEF OneLess
<1> HIDE DEF Waits
<1>3. FlowInit => Types
  BY <1>1 DEF FlowInit
<1>4. Types /\ [FlowNext]_flowVars => Types'
  <2> SUFFICES ASSUME Types, [FlowNext]_flowVars PROVE Types'
    OBVIOUS
  <2>1. CASE FlowTick
    BY <1>1, <1>2, <2>1 DEF FlowTick
  <2>2. CASE DeviceRequest \/ PollSlowDown \/ PollToken \/ FlowFails \/ Poll
    BY <1>1, <2>2 DEF DeviceRequest, PollSlowDown, PollToken, FlowFails, Poll
  <2>3. CASE DeviceAnswer \/ PollPending \/ SlowedLongEnough
    BY <1>1, <2>3 DEF DeviceAnswer, PollPending, SlowedLongEnough, LoopWith
  <2>4. CASE UNCHANGED flowVars
    BY <2>4 DEF flowVars
  <2> QED
    BY <2>1, <2>2, <2>3, <2>4 DEF FlowNext, FlowAnswers, FlowWaits
<1>5. Types => FlowTypeOK
  BY DEF Waits, FlowTypeOK
<1> QED
  BY <1>3, <1>4, <1>5, PTL

LEMMA ContextsTyped == ContextsInit /\ [][ContextsNext]_contexts => []ContextsTypeOK
<1>1. ContextsInit => ContextsIInv
  BY CapabilityAssumption DEF ContextsInit, ContextsIInv, ContextsTypeOK, DerivedWithin
<1>2. ContextsIInv => ContextsTypeOK
  BY DEF ContextsIInv
<1> QED
  BY <1>1, <1>2, NextContextsIInv, PTL

LEMMA ProcessTyped == ProcessInit /\ [][ProcessNext]_processVars => []ProcessTypeOK
<1>1. ProcessInit => ProcessTypeOK
  BY DEF ProcessInit, ProcessTypeOK
<1>2. ProcessTypeOK /\ [ProcessNext]_processVars => ProcessTypeOK'
  <2> SUFFICES ASSUME ProcessTypeOK, [ProcessNext]_processVars PROVE ProcessTypeOK'
    OBVIOUS
  <2>1. CASE CommandForks \/ HeirEnds \/ CommandCloses
    BY <2>1, ZenonT(30) DEF CommandForks, HeirEnds, CommandCloses, ProcessTypeOK
  <2>2. CASE CommandExits("zero") \/ CommandExits("other") \/ CommandDies
    BY <2>2 DEF CommandExits, CommandDies, ProcessTypeOK
  <2>3. CASE TimerFires \/ OutputEnds
    BY <2>3 DEF TimerFires, OutputEnds, ProcessTypeOK
  <2>4. CASE ProcessReturns
    BY <2>4 DEF ProcessReturns, ProcessTypeOK
  <2>5. CASE UNCHANGED processVars
    BY <2>5 DEF processVars, ProcessTypeOK
  <2> QED
    BY <2>1, <2>2, <2>3, <2>4, <2>5 DEF ProcessNext
<1> QED
  BY <1>1, <1>2, PTL

LEMMA StreamTyped == StreamInit /\ [][StreamNext]_streamVars => []StreamTypeOK
<1>1. StreamInit => StreamTypeOK
  BY DEF StreamInit, StreamTypeOK, Caller
<1>2. StreamTypeOK /\ [StreamNext]_streamVars => StreamTypeOK'
  <2> SUFFICES ASSUME StreamTypeOK, [StreamNext]_streamVars PROVE StreamTypeOK'
    OBVIOUS
  <2>1. CASE DockerCreates \/ DockerRefuses \/ ContainerExits
    BY <2>1 DEF DockerCreates, DockerRefuses, ContainerExits, StreamTypeOK
  <2>2. CASE StreamStart \/ IterationBegins
    BY <2>2 DEF StreamStart, IterationBegins, StreamTypeOK
  <2>3. CASE PollEnds
    BY <2>3 DEF PollEnds, StreamTypeOK
  <2>4. ASSUME NEW c \in Caller, Entered(c), stream' \in {stream, "over"}, UNCHANGED <<container, cid, directory, failing>>
        PROVE  StreamTypeOK'
    BY <2>4 DEF Entered, StreamTypeOK
  <2>5. CASE IterationEnds
    BY <2>4, <2>5 DEF IterationEnds, Caller
  <2>6. ASSUME NEW c \in Killer, KillCalled(c) PROVE StreamTypeOK'
    BY <2>4, <2>6 DEF KillCalled, Caller
  <2>7. ASSUME NEW c \in Caller, DockerKill(c) PROVE StreamTypeOK'
    BY <2>7 DEF DockerKill, StreamTypeOK
  <2>8. ASSUME NEW c \in Caller, DockerRm(c) PROVE StreamTypeOK'
    BY <2>8 DEF DockerRm, StreamTypeOK
  <2>9. ASSUME NEW c \in Caller, KillEnds(c) PROVE StreamTypeOK'
    BY <2>9 DEF KillEnds, StreamTypeOK
  <2>10. CASE UNCHANGED streamVars
    BY <2>10 DEF streamVars, StreamTypeOK
  <2> QED
    BY <2>1, <2>2, <2>3, <2>5, <2>6, <2>7, <2>8, <2>9, <2>10 DEF StreamNext, KillGoesOn
<1> QED
  BY <1>1, <1>2, PTL

LEMMA WaitTyped == WaitInit /\ [][WaitNext]_waitVars => []WaitTypeOK
<1>0. Patience \in Nat /\ Pause \in Nat /\ None \notin Nat
  BY WaitAssumption
<1>1. WaitInit => WaitTypeOK
  BY <1>0 DEF WaitInit, WaitTypeOK
<1>2. WaitTypeOK /\ [WaitNext]_waitVars => WaitTypeOK'
  <2> SUFFICES ASSUME WaitTypeOK, [WaitNext]_waitVars PROVE WaitTypeOK'
    OBVIOUS
  <2>1. CASE PortOpens \/ DaemonExits
    <3>1. port' \in {0, None} /\ alive' \in {alive, FALSE} /\ UNCHANGED <<turn, patience, pausing>>
      BY <2>1 DEF PortOpens, DaemonExits
    <3>2. 0 \in 0 .. Pause + 1
      BY <1>0
    <3>3. alive' \in BOOLEAN
      BY <3>1 DEF WaitTypeOK
    <3> QED
      BY <3>1, <3>2, <3>3 DEF WaitTypeOK
  <2>2. CASE WaitStart \/ PauseEnds \/ Connects
    BY <1>0, <2>2 DEF WaitStart, PauseEnds, Connects, LoopTurn, WaitTypeOK
  <2>3. CASE StatusAnswers \/ StatusThrows
    BY <1>0, <2>3 DEF StatusAnswers, StatusThrows, WaitTypeOK
  <2>4. CASE WaitTick
    <3>1. /\ patience \in 0 .. Patience /\ pausing \in 0 .. Pause /\ pausing > 0
          /\ port = None \/ port \in 0 .. Pause + 1
          /\ pausing' = pausing - 1 /\ patience' = IF patience = 0 THEN 0 ELSE patience - 1
          /\ port' = IF port \in {None, Pause + 1} THEN port ELSE port + 1
          /\ UNCHANGED <<turn, alive>>
      BY <2>4 DEF WaitTick, WaitTypeOK
    <3>2. pausing' \in 0 .. Pause /\ patience' \in 0 .. Patience
      BY <1>0, <3>1
    <3>3. port' \in (0 .. Pause + 1) \cup {None}
      BY <1>0, <3>1
    <3> QED
      BY <3>1, <3>2, <3>3 DEF WaitTypeOK
  <2>5. CASE UNCHANGED waitVars
    BY <2>5 DEF waitVars, WaitTypeOK
  <2> QED
    BY <2>1, <2>2, <2>3, <2>4, <2>5 DEF WaitNext
<1> QED
  BY <1>1, <1>2, PTL

Sources == [id : 1 .. 3, filter : Watchable, open : BOOLEAN, cut : BOOLEAN]

LEMMA SourceTyped ==
  ASSUME NEW s \in Watchable, NewSource(s, {})
  PROVE  connections' \subseteq Sources /\ esRef' \in 1 .. 3
<1>1. PICK n : /\ n = CHOOSE k \in 1 .. 3 : \A c \in {} : c.id # k
               /\ connections' = {[id |-> n, filter |-> s, open |-> FALSE, cut |-> FALSE]} /\ esRef' = n
  BY DEF NewSource
<1>2. n \in 1 .. 3
  <2>1. \E k \in 1 .. 3 : \A c \in {} : c.id # k
    OBVIOUS
  <2> QED
    BY <1>1, <2>1
<1> QED
  BY <1>1, <1>2 DEF Sources

ViewTypes == StreamViewTypeOK /\ ViewIInv

LEMMA ViewTypesStay == ViewTypes /\ [StreamViewNext]_streamViewVars => StreamViewTypeOK'
<1> SUFFICES ASSUME ViewTypes, [StreamViewNext]_streamViewVars PROVE StreamViewTypeOK'
  OBVIOUS
<1>1. /\ watched \in Watchable \cup {None} /\ esRef \in 0 .. 3 /\ {connected, serverUp} \subseteq BOOLEAN
      /\ connections \subseteq Sources
      /\ retry \in {None} \cup [filter : Watchable] /\ backoff \in 1 .. MaxBackoff /\ Len(shown) <= MaxShown
      /\ outages \in 0 .. MaxOutages /\ views \in 0 .. MaxViews
  BY DEF ViewTypes, StreamViewTypeOK, Sources
<1>2. /\ MaxBackoff \in Nat /\ MaxBackoff > 0 /\ MaxShown \in Nat /\ MaxOutages \in Nat /\ MaxViews \in Nat
      /\ None \notin Watchable /\ None \notin [filter : Watchable]
  BY ViewAssumption
<1>3. ASSUME NEW c \in connections
      PROVE  connections = {c} /\ c \in Sources /\ c.id = esRef
  BY <1>1 DEF ViewTypes, ViewIInv
<1>4. ASSUME NEW c \in connections, OnOpen(c) PROVE StreamViewTypeOK'
  <2>1. [c EXCEPT !.open = TRUE] \in Sources
    BY <1>3 DEF Sources
  <2>2. connections' \subseteq Sources /\ connected' = TRUE /\ backoff' = 1
        /\ UNCHANGED <<watched, esRef, retry, shown, serverUp, outages, views>>
    BY <1>1, <1>4, <2>1 DEF OnOpen, outsideVars
  <2> QED
    BY <1>1, <1>2, <2>2 DEF StreamViewTypeOK, Sources
<1>5. ASSUME NEW c \in connections, OnMessage(c) PROVE StreamViewTypeOK'
  <2> DEFINE all == <<[of |-> c.filter, wanted |-> watched]>> \o shown
             k == IF Len(shown) < MaxShown THEN Len(shown) + 1 ELSE MaxShown
  <2>1. shown \in Seq(Wanted) /\ Len(shown) \in Nat
    BY DEF ViewTypes, ViewIInv
  <2>2. c.filter = watched /\ watched \in Watchable
    BY <1>5 DEF ViewTypes, ViewIInv
  <2>3. [of |-> c.filter, wanted |-> watched] \in Wanted
    BY <2>2 DEF Wanted
  <2>4. all \in Seq(Wanted) /\ Len(all) = Len(shown) + 1
    BY <2>1, <2>3
  <2>5. k \in Nat /\ k <= Len(shown) + 1 /\ k <= MaxShown
    BY <1>1, <1>2, <2>1
  <2>6. shown' = SubSeq(all, 1, k)
    BY <1>5 DEF OnMessage
  <2> HIDE DEF all, k
  <2>7. Len(shown') <= MaxShown
    BY <1>2, <2>1, <2>4, <2>5, <2>6
  <2>8. UNCHANGED <<watched, connections, esRef, retry, backoff, connected, serverUp, outages, views>>
    BY <1>5 DEF OnMessage, outsideVars
  <2> QED
    BY <1>1, <2>7, <2>8 DEF StreamViewTypeOK, Sources
<1>6. ASSUME NEW c \in connections, OnError(c) PROVE StreamViewTypeOK'
  <2>1. connections' \subseteq Sources /\ connected' = FALSE /\ backoff' = Later(backoff) /\ retry' = [filter |-> c.filter]
        /\ UNCHANGED <<watched, esRef, shown, serverUp, outages, views>>
    BY <1>1, <1>6 DEF OnError, outsideVars
  <2>2. retry' \in [filter : Watchable]
    BY <1>3, <2>1 DEF Sources
  <2>3. backoff' \in 1 .. MaxBackoff
    BY <1>1, <1>2, <2>1 DEF Later
  <2> QED
    BY <1>1, <2>1, <2>2, <2>3 DEF StreamViewTypeOK, Sources
<1>7. CASE RetryFires
  <2>1. connections = {} /\ retry \in [filter : Watchable]
    BY <1>1, <1>7 DEF RetryFires, ViewTypes, ViewIInv
  <2>2. connections' \subseteq Sources /\ esRef' \in 1 .. 3
    BY <1>7, <2>1, SourceTyped DEF RetryFires
  <2>3. retry' = None /\ UNCHANGED <<watched, backoff, connected, shown, serverUp, outages, views>>
    BY <1>7 DEF RetryFires, outsideVars
  <2> QED
    BY <1>1, <2>2, <2>3 DEF StreamViewTypeOK, Sources
<1>8. ASSUME NEW s \in Watchable \cup {None}, ChangesView(s) PROVE StreamViewTypeOK'
  <2>1. {c \in connections : c.id # esRef} = {}
    BY <1>3
  <2>2. connections' \subseteq Sources /\ esRef' \in 0 .. 3
    <3>1. CASE s = None
      BY <1>1, <1>8, <2>1, <3>1 DEF ChangesView
    <3>2. CASE s # None
      BY <1>8, <2>1, <3>2, SourceTyped DEF ChangesView
    <3> QED
      BY <3>1, <3>2
  <2>3. watched' = s /\ retry' = None /\ views < MaxViews /\ views' = views + 1
        /\ UNCHANGED <<backoff, connected, shown, serverUp, outages>>
    BY <1>8 DEF ChangesView
  <2> QED
    BY <1>1, <1>2, <2>2, <2>3 DEF StreamViewTypeOK, Sources
<1>9. CASE ServerStops
  <2>1. connections' = {[c EXCEPT !.cut = TRUE] : c \in connections}
    BY <1>9 DEF ServerStops
  <2>2. \A c \in Sources : [c EXCEPT !.cut = TRUE] \in Sources
    BY DEF Sources
  <2>3. connections' \subseteq Sources
    BY <1>1, <2>1, <2>2
  <2>4. serverUp' = FALSE /\ outages < MaxOutages /\ outages' = outages + 1
        /\ UNCHANGED <<watched, esRef, retry, backoff, connected, shown, views>>
    BY <1>9 DEF ServerStops
  <2>5. outages' \in 0 .. MaxOutages
    BY <1>1, <1>2, <2>4
  <2>6. {connected', serverUp'} \subseteq BOOLEAN
    BY <1>1, <2>4
  <2> QED
    BY <1>1, <2>3, <2>4, <2>5, <2>6 DEF StreamViewTypeOK, Sources
<1>10. CASE ServerStarts
  BY <1>10 DEF ServerStarts, ViewTypes, StreamViewTypeOK
<1>11. CASE UNCHANGED streamViewVars
  BY <1>11 DEF streamViewVars, outsideVars, ViewTypes, StreamViewTypeOK
<1> QED
  BY <1>4, <1>5, <1>6, <1>7, <1>8, <1>9, <1>10, <1>11 DEF StreamViewNext

LEMMA ViewBegins == StreamViewInit => StreamViewTypeOK /\ ViewIInv
<1> SUFFICES ASSUME StreamViewInit PROVE StreamViewTypeOK /\ ViewIInv
  OBVIOUS
<1> DEFINE c == [id |-> 1, filter |-> watched, open |-> FALSE, cut |-> FALSE]
<1>1. connections = {c} /\ watched \in Watchable /\ esRef = 1 /\ retry = None /\ shown = <<>>
      /\ backoff = 1 /\ connected = FALSE /\ serverUp = TRUE /\ outages = 0 /\ views = 0
  BY DEF StreamViewInit
<1>2. c \in Sources /\ c.id = 1 /\ c.filter = watched
  BY <1>1 DEF Sources
<1> HIDE DEF c
<1>3. /\ MaxBackoff \in Nat /\ MaxBackoff > 0 /\ MaxShown \in Nat /\ MaxOutages \in Nat /\ MaxViews \in Nat
      /\ None \notin Watchable
  BY ViewAssumption
<1>4. connections \subseteq Sources /\ shown \in Seq(Wanted) /\ Len(shown) = 0
  BY <1>1, <1>2
<1>5. StreamViewTypeOK
  <2>1. {connected, serverUp} \subseteq BOOLEAN
    BY <1>1
  <2>2. backoff \in 1 .. MaxBackoff /\ Len(shown) <= MaxShown /\ outages \in 0 .. MaxOutages /\ views \in 0 .. MaxViews
        /\ esRef \in 0 .. 3
    BY <1>1, <1>3, <1>4
  <2> QED
    BY <1>1, <1>4, <2>1, <2>2 DEF StreamViewTypeOK, Sources
<1>6. ViewIInv
  BY <1>1, <1>2, <1>3, <1>4 DEF ViewIInv
<1> QED
  BY <1>5, <1>6

LEMMA ViewTyped == StreamViewInit /\ [][StreamViewNext]_streamViewVars => []StreamViewTypeOK
<1>1. ViewTypes /\ [StreamViewNext]_streamViewVars => ViewTypes'
  BY ViewTypesStay, NextViewIInv DEF ViewTypes
<1>2. StreamViewInit => ViewTypes
  BY ViewBegins DEF ViewTypes
<1>3. ViewTypes => StreamViewTypeOK
  BY DEF ViewTypes
<1> QED
  BY <1>1, <1>2, <1>3, PTL

----------------------------------------------------------------------------
(* Readers: what was read and is not yet a line is in the buffer or in the *)
(* decoder.                                                                *)

Byte == {Newline, First, Second}
Text1 == {First, Second, Broken}

LEMMA LinesSplit ==
    ASSUME NEW s
    PROVE  Lines(s) = SplitAt(s, Newline)
    BY DEF Lines, SplitAt

LEMMA PartOf ==
    ASSUME NEW A, NEW s \in Seq(A), NEW a \in 0 .. Len(s), NEW b \in a .. Len(s)
    PROVE  /\ SubSeq(s, a + 1, b) \in Seq(A)
           /\ Len(SubSeq(s, a + 1, b)) = b - a
           /\ \A i \in 1 .. b - a : SubSeq(s, a + 1, b)[i] = s[a + i]
<1>1. /\ a + 1 \in Int /\ b \in Int /\ b - (a + 1) + 1 = b - a
      /\ (a + 1 <= b => b - a = b - a) /\ (~(a + 1 <= b) => b - a = 0)
      /\ \A i \in 1 .. b - a : (a + 1) + i - 1 = a + i
    OBVIOUS
<1>2. \A i \in a + 1 .. b : s[i] \in A
    BY ElementOfSeq
<1> DEFINE m == a + 1
           t == SubSeq(s, m, b)
<1>3. /\ t \in Seq(A)
      /\ Len(t) = IF m <= b THEN b - m + 1 ELSE 0
      /\ \A i \in 1 .. b - m + 1 : t[i] = s[m + i - 1]
    BY <1>1, <1>2, SubSeqProperties
<1> HIDE DEF t
<1>4. t \in Seq(A) /\ Len(t) = b - a /\ \A i \in 1 .. b - a : t[i] = s[a + i]
    BY <1>1, <1>3
<1> QED
    BY <1>4 DEF t

LEMMA PartsJoin ==
    ASSUME NEW A, NEW s \in Seq(A), NEW a \in 0 .. Len(s), NEW b \in a .. Len(s), NEW c \in b .. Len(s)
    PROVE  SubSeq(s, a + 1, b) \o SubSeq(s, b + 1, c) = SubSeq(s, a + 1, c)
<1>1. a + 1 \in 1 .. Len(s) + 1 /\ b \in (a + 1) - 1 .. Len(s)
    OBVIOUS
<1> DEFINE m == a + 1
<1> HIDE DEF m
<1>2. m \in 1 .. Len(s) + 1 /\ b \in m - 1 .. Len(s)
    BY <1>1 DEF m
<1>3. SubSeq(s, m, b) \o SubSeq(s, b + 1, c) = SubSeq(s, m, c)
    BY <1>2, ConcatAdjacentSubSeq
<1> QED
    BY <1>3 DEF m

LEMMA PartOfMore ==
    ASSUME NEW A, NEW s \in Seq(A), NEW t \in Seq(A), NEW a \in 0 .. Len(s), NEW b \in a .. Len(s)
    PROVE  SubSeq(s \o t, a + 1, b) = SubSeq(s, a + 1, b)
<1> DEFINE u == s \o t
           v == SubSeq(s, a + 1, b)
           w == SubSeq(u, a + 1, b)
<1>1. /\ u \in Seq(A) /\ Len(u) = Len(s) + Len(t)
      /\ \A i \in 1 .. Len(s) + Len(t) : u[i] = IF i <= Len(s) THEN s[i] ELSE t[i - Len(s)]
    BY ConcatProperties
<1>2. Len(s) \in Nat /\ Len(t) \in Nat
    BY LenProperties
<1> HIDE DEF u
<1>3. a \in 0 .. Len(u) /\ b \in a .. Len(u)
    BY <1>1, <1>2
<1>4. v \in Seq(A) /\ Len(v) = b - a /\ \A i \in 1 .. b - a : v[i] = s[a + i]
    BY PartOf
<1>5. w \in Seq(A) /\ Len(w) = b - a /\ \A i \in 1 .. b - a : w[i] = u[a + i]
    BY <1>1, <1>3, PartOf
<1>6. \A i \in 1 .. b - a : u[a + i] = s[a + i]
    <2> TAKE i \in 1 .. b - a
    <2>1. a + i \in 1 .. Len(s) + Len(t) /\ a + i <= Len(s)
        BY <1>2
    <2> QED
        BY <1>1, <2>1
<1> HIDE DEF v, w
<1>7. \A i \in 1 .. Len(v) : v[i] = w[i]
    BY <1>4, <1>5, <1>6
<1>8. Len(v) = Len(w)
    BY <1>4, <1>5
<1>9. v = w
    BY <1>4, <1>5, <1>7, <1>8, SeqEqual
<1> QED
    BY <1>9 DEF v, w, u

\* A text that was read line by line, and what is read next.
GoesOn(a, b, yes, rest) ==
    /\ Front(Lines(a \o b)) = yes \o Front(Lines(rest \o b))
    /\ Last(Lines(a \o b)) = Last(Lines(rest \o b))

LEMMA LinesGoOn ==
    ASSUME NEW A, NEW a \in Seq(A), NEW b \in Seq(A)
    PROVE  GoesOn(a, b, Front(Lines(a)), Last(Lines(a)))
<1> DEFINE yes == Front(Lines(a))
           rest == Last(Lines(a))
           B == A \ {Newline}
           lines == Lines(rest \o b)
<1>1. Lines(a) \in Seq(Seq(B)) /\ Lines(a) # <<>>
    BY LinesSplit, SplitType DEF Parts
<1>2. yes \in Seq(Seq(B)) /\ rest \in Seq(B)
    BY <1>1, FrontLast
<1>3. Seq(B) \subseteq Seq(A)
    BY SeqMonotonic
<1>4. rest \o b \in Seq(A)
    BY <1>2, <1>3, ConcatProperties
<1>5. lines \in Seq(Seq(B)) /\ lines # <<>>
    BY <1>4, LinesSplit, SplitType DEF Parts
<1>6. Lines(a \o b) = yes \o lines
    <2>1. SplitAt(a \o b, Newline) = Front(SplitAt(a, Newline)) \o SplitAt(Last(SplitAt(a, Newline)) \o b, Newline)
        BY SplitGoesOn
    <2> QED
        BY <2>1, LinesSplit
<1> HIDE DEF B, lines, yes, rest
<1>7. Front(yes \o lines) = yes \o Front(lines) /\ Last(yes \o lines) = Last(lines)
    BY <1>2, <1>5, FrontLastOfConcat
<1> QED
    BY <1>6, <1>7 DEF lines, yes, rest, GoesOn

LEMMA LinesType ==
    ASSUME NEW A, NEW s \in Seq(A)
    PROVE  /\ Lines(s) \in Seq(Seq(A \ {Newline})) /\ Lines(s) # <<>>
           /\ Front(Lines(s)) \in Seq(Seq(A \ {Newline})) /\ Last(Lines(s)) \in Seq(A \ {Newline})
<1>1. Lines(s) \in Seq(Seq(A \ {Newline})) /\ Lines(s) # <<>>
    BY LinesSplit, SplitType DEF Parts
<1> QED
    BY <1>1, FrontLast

LEMMA NoLines == Front(Lines(<<>>)) = <<>> /\ Last(Lines(<<>>)) = <<>>
<1>1. Lines(<<>>) = <<<<>>>>
    BY LinesSplit, SplitNothing
<1> DEFINE one == <<<<>>>>
<1>2. one \in Seq({<<>>}) /\ Len(one) = 1 /\ one[1] = <<>> /\ one # <<>>
    OBVIOUS
<1> HIDE DEF one
<1>3. Front(one) \in Seq({<<>>}) /\ Len(Front(one)) = Len(one) - 1
    BY <1>2, FrontLast
<1>4. Front(one) = <<>>
    BY <1>2, <1>3, EmptySeq
<1>5. Last(one) = <<>>
    BY <1>2 DEF Last
<1> QED
    BY <1>1, <1>4, <1>5 DEF one

-----------------------------------------------------------------------------
\* No byte of a character without the other, but at the end the first.
Formed(bytes) ==
    \A i \in 1 .. Len(bytes) :
        /\ bytes[i] = Second => i > 1 /\ bytes[i - 1] = First
        /\ bytes[i] = First /\ i < Len(bytes) => bytes[i + 1] = Second

\* What the reader has read of it and decoded.
Taken == offset - Len(undecoded)
ReadSoFar == SubSeq(written, start + 1, Taken)

ReaderTypes ==
    /\ reader \in {"tail", "tailAll", "output"}
    /\ written \in Seq(Byte) /\ Len(written) <= MaxBytes
    /\ offset \in 0 .. MaxBytes /\ start \in Nat /\ start <= offset
    /\ undecoded \in {<<>>, <<First>>}
    /\ buffer \in Seq(Text1) /\ yielded \in Seq(Seq(Text1))
    /\ open \in BOOLEAN /\ reading \in {"reading", "ended", "left"}
    /\ truncated \in BOOLEAN /\ cut \in BOOLEAN

ReaderPlaces ==
    /\ Formed(written)
    /\ ~truncated => offset <= Len(written)
    /\ reader = "output" => ~truncated /\ ~cut
    /\ reader # "output" => undecoded = <<>> /\ reading # "ended"
    /\ undecoded # <<>> => offset > start /\ written[offset] = First
    /\ reader # "output" /\ ~truncated /\ ~cut => offset = 0 \/ written[offset] # First

ReaderInv == ReaderTypes /\ ReaderPlaces /\ LinesAreWhole

\* Bytes that make whole characters stay as they are.
LEMMA WholeIsDecoded ==
    ASSUME NEW bytes \in Seq(Byte), Formed(bytes), Whole(bytes)
    PROVE  Decoded(bytes) = bytes
<1> DEFINE lone(n) == \/ bytes[n] = First /\ (n = Len(bytes) \/ bytes[n + 1] # Second)
                      \/ bytes[n] = Second /\ (n = 1 \/ bytes[n - 1] # First)
<1>1. Decoded(bytes) = [n \in DOMAIN bytes |-> IF lone(n) THEN Broken ELSE bytes[n]]
    BY DEF Decoded
<1>2. ASSUME NEW n \in DOMAIN bytes PROVE ~lone(n)
    <2>1. n \in 1 .. Len(bytes) /\ bytes # <<>> /\ Len(bytes) \in Nat
        OBVIOUS
    <2>2. bytes[Len(bytes)] # First
        BY <2>1 DEF Whole, Last
    <2>3. n # Len(bytes) => n < Len(bytes)
        BY <2>1
    <2>4. bytes[n] = First => n < Len(bytes) /\ bytes[n + 1] = Second
        BY <2>1, <2>2, <2>3 DEF Formed
    <2>5. bytes[n] = Second => n > 1 /\ bytes[n - 1] = First
        BY <2>1 DEF Formed
    <2> QED
        BY <2>1, <2>4, <2>5
<1> HIDE DEF lone
<1>3. [n \in DOMAIN bytes |-> IF lone(n) THEN Broken ELSE bytes[n]] = [n \in DOMAIN bytes |-> bytes[n]]
    BY <1>2
<1>4. [n \in DOMAIN bytes |-> bytes[n]] = bytes
    OBVIOUS
<1> QED
    BY <1>1, <1>3, <1>4

LEMMA DecodedType ==
    ASSUME NEW bytes \in Seq(Byte)
    PROVE  Decoded(bytes) \in Seq(Byte \cup {Broken})
<1> DEFINE d == Decoded(bytes)
           n == Len(bytes)
<1>1. d \in [1 .. n -> Byte \cup {Broken}] /\ n \in Nat
    <2>1. n \in Nat /\ DOMAIN bytes = 1 .. n /\ \A i \in 1 .. n : bytes[i] \in Byte
        OBVIOUS
    <2> HIDE DEF n
    <2> QED
        BY <2>1 DEF Decoded
<1> HIDE DEF d, n
<1>2. d \in Seq(Byte \cup {Broken})
    BY <1>1
<1> QED
    BY <1>2 DEF d

LEMMA FormedMore ==
    ASSUME NEW s \in Seq(Byte), Formed(s), NEW x \in Byte, x = Second <=> ~Whole(s)
    PROVE  /\ s \o <<x>> \in Seq(Byte) /\ Formed(s \o <<x>>)
           /\ Whole(s \o <<x>>) <=> x # First
<1> DEFINE t == s \o <<x>>
           n == Len(s)
<1>1. n \in Nat /\ <<x>> \in Seq(Byte) /\ Len(<<x>>) = 1 /\ <<x>>[1] = x
    OBVIOUS
<1>2. /\ t \in Seq(Byte) /\ Len(t) = n + 1
      /\ t[n + 1] = x /\ \A i \in 1 .. n : t[i] = s[i]
    <2> DEFINE one == <<x>>
    <2>1. one \in Seq(Byte) /\ Len(one) = 1 /\ one[1] = x
        BY <1>1
    <2> HIDE DEF one
    <2> DEFINE tt == s \o one
    <2>2. /\ tt \in Seq(Byte) /\ Len(tt) = Len(s) + Len(one)
          /\ \A i \in 1 .. Len(s) + Len(one) : tt[i] = IF i <= Len(s) THEN s[i] ELSE one[i - Len(s)]
        BY <2>1, ConcatProperties
    <2> HIDE DEF tt, n
    <2>3. Len(s) = n
        BY DEF n
    <2>4. /\ tt \in Seq(Byte) /\ Len(tt) = n + 1
          /\ tt[n + 1] = x /\ \A i \in 1 .. n : tt[i] = s[i]
        BY <1>1, <2>1, <2>2, <2>3
    <2> QED
        BY <2>4 DEF tt, one
<1>3. ~Whole(s) <=> n > 0 /\ s[n] = First
    <2>1. s = <<>> <=> n = 0
        BY EmptySeq
    <2> QED
        BY <1>1, <2>1 DEF Whole, Last
<1>4. Whole(t) <=> x # First
    <2>1. t # <<>>
        BY <1>1, <1>2, EmptySeq
    <2> HIDE DEF t
    <2> QED
        BY <1>2, <2>1 DEF Whole, Last
<1> HIDE DEF t, n
<1>5. Formed(t)
    <2>1. ASSUME NEW i \in 1 .. n + 1, t[i] = Second PROVE i > 1 /\ t[i - 1] = First
        <3>1. CASE i = n + 1
            <4>1. n > 0 /\ s[n] = First
                BY <1>2, <1>3, <2>1, <3>1
            <4>2. n \in 1 .. n /\ i - 1 = n
                BY <1>1, <3>1, <4>1
            <4>3. t[n] = s[n]
                BY <1>2, <4>2
            <4> QED
                BY <1>1, <3>1, <4>1, <4>2, <4>3
        <3>2. CASE i # n + 1
            <4>1. i \in 1 .. n
                BY <1>1, <3>2
            <4>2. i > 1 /\ s[i - 1] = First
                BY <1>2, <2>1, <4>1 DEF Formed, n
            <4>3. i - 1 \in 1 .. n
                BY <1>1, <4>1, <4>2
            <4> QED
                BY <1>2, <4>2, <4>3
        <3> QED
            BY <3>1, <3>2
    <2>2. ASSUME NEW i \in 1 .. n + 1, t[i] = First, i < n + 1 PROVE t[i + 1] = Second
        <3>1. i \in 1 .. n /\ s[i] = First
            BY <1>1, <1>2, <2>2
        <3>2. CASE i < n
            <4>1. i + 1 \in 1 .. n
                BY <1>1, <3>1, <3>2
            <4>2. s[i + 1] = Second
                BY <3>1, <3>2 DEF Formed, n
            <4> QED
                BY <1>2, <4>1, <4>2
        <3>3. CASE ~(i < n)
            <4>1. i = n /\ n > 0
                BY <1>1, <3>1, <3>3
            <4>2. x = Second
                BY <1>3, <3>1, <4>1
            <4> QED
                BY <1>2, <4>1, <4>2
        <3> QED
            BY <3>2, <3>3
    <2> QED
        BY <1>2, <2>1, <2>2 DEF Formed
<1> QED
    BY <1>2, <1>4, <1>5 DEF t


\* What the writer adds leaves what was read as it is.
Grown(bytes) ==
    /\ bytes \in Seq(Byte)
    /\ written' = written \o bytes /\ Formed(written') /\ Len(written') <= MaxBytes

LEMMA WriterGrows ==
    ASSUME ReaderInv, SomebodyWrites
    PROVE  \E bytes \in Seq(Byte) : Grown(bytes) /\ UNCHANGED <<reader, offset, undecoded, buffer, yielded, start, open, reading, truncated, cut>>
<1>1. written \in Seq(Byte) /\ Formed(written) /\ Len(written) \in Nat
    BY DEF ReaderInv, ReaderTypes, ReaderPlaces
<1>2. ASSUME NEW bytes \in Seq(Byte), Writes(bytes), Formed(written \o bytes)
      PROVE  Grown(bytes) /\ UNCHANGED <<reader, offset, undecoded, buffer, yielded, start, open, reading, truncated, cut>>
    <2>1. Len(written \o bytes) = Len(written) + Len(bytes)
        BY <1>1, ConcatProperties
    <2> QED
        BY <1>2, <2>1 DEF Writes, Grown
<1>3. ASSUME NEW x \in Byte, x = Second <=> ~Whole(written)
      PROVE  <<x>> \in Seq(Byte) /\ Formed(written \o <<x>>)
    <2>1. Formed(written \o <<x>>)
        BY <1>1, <1>3, FormedMore
    <2> QED
        BY <2>1
<1>4. /\ <<First, Second>> \in Seq(Byte)
      /\ Whole(written) => Formed(written \o <<First, Second>>)
    <2> DEFINE a == written \o <<First>>
               b == a \o <<Second>>
    <2>0. First \in Byte /\ Second \in Byte /\ First # Second /\ <<First>> \in Seq(Byte) /\ <<Second>> \in Seq(Byte)
        BY DEF Byte, First, Second
    <2>1. Whole(written) => a \in Seq(Byte) /\ Formed(a) /\ ~Whole(a)
        BY <1>1, <2>0, FormedMore
    <2>2. Whole(written) => Formed(b)
        <3> HIDE DEF a
        <3> QED
            BY <2>0, <2>1, FormedMore
    <2>3. b = written \o (<<First>> \o <<Second>>)
        BY <1>1, <2>0, ConcatAssociative
    <2>4. <<First>> \o <<Second>> = Append(<<First>>, Second)
        BY <2>0, AppendIsConcat
    <2>5. Append(<<First>>, Second) = <<First, Second>>
        BY Two
    <2> DEFINE two == <<First, Second>>
    <2>6. two \in Seq(Byte)
        BY <2>0
    <2>7. b = written \o two
        BY <2>3, <2>4, <2>5
    <2> HIDE DEF b, two
    <2>8. two \in Seq(Byte) /\ (Whole(written) => Formed(written \o two))
        BY <2>2, <2>6, <2>7
    <2> QED
        BY <2>8 DEF two
<1>5. Newline \in Byte /\ First \in Byte /\ Second \in Byte /\ First # Second /\ Newline # Second
    BY DEF Byte, First, Second, Newline
<1>6. CASE Whole(written)
    <2>1. Writes(<<Newline>>) \/ Writes(<<First>>) \/ Writes(<<First, Second>>)
        BY <1>6 DEF SomebodyWrites
    <2> QED
        BY <1>2, <1>3, <1>4, <1>5, <1>6, <2>1
<1>7. CASE ~Whole(written)
    <2>1. Writes(<<Second>>)
        BY <1>7 DEF SomebodyWrites
    <2> QED
        BY <1>2, <1>3, <1>5, <1>7, <2>1
<1> QED
    BY <1>6, <1>7

LEMMA TakenPlaces ==
    ASSUME ReaderInv, ~truncated
    PROVE  /\ Len(written) \in Nat /\ start \in 0 .. Len(written) /\ Taken \in start .. Len(written)
           /\ Taken \in 0 .. Len(written)
           /\ (undecoded = <<>> => Taken = offset) /\ (undecoded # <<>> => Taken = offset - 1)
           /\ ReadSoFar \in Seq(Byte)
<1>1. Len(written) \in Nat /\ start \in Nat /\ offset \in Nat /\ start <= offset /\ offset <= Len(written)
    <2>1. offset \in 0 .. MaxBytes
        BY DEF ReaderInv, ReaderTypes
    <2>2. offset \in Int /\ offset >= 0
        BY <2>1
    <2> QED
        BY <2>2 DEF ReaderInv, ReaderTypes, ReaderPlaces
<1>2. (undecoded = <<>> => Len(undecoded) = 0) /\ (undecoded = <<First>> => Len(undecoded) = 1)
    OBVIOUS
<1>3. undecoded \in {<<>>, <<First>>} /\ (undecoded # <<>> => offset > start)
    BY DEF ReaderInv, ReaderTypes, ReaderPlaces
<1>4. /\ (undecoded = <<>> => Taken = offset) /\ (undecoded # <<>> => Taken = offset - 1)
    <2> DEFINE l == Len(undecoded)
    <2>1. (undecoded = <<>> /\ l = 0) \/ (undecoded # <<>> /\ l = 1)
        BY <1>2, <1>3
    <2>2. Taken = offset - l
        BY DEF Taken
    <2> HIDE DEF l
    <2> QED
        BY <1>1, <2>1, <2>2
<1>5. start \in 0 .. Len(written) /\ Taken \in start .. Len(written) /\ Taken \in 0 .. Len(written)
    BY <1>1, <1>3, <1>4
<1>6. written \in Seq(Byte)
    BY DEF ReaderInv, ReaderTypes
<1> DEFINE k == Taken
<1> HIDE DEF k
<1>7. SubSeq(written, start + 1, k) \in Seq(Byte)
    <2>1. k \in start .. Len(written)
        BY <1>5 DEF k
    <2> QED
        BY <1>5, <1>6, <2>1, PartOf
<1> QED
    BY <1>1, <1>4, <1>5, <1>7 DEF ReadSoFar, k

LEMMA GrowKeeps ==
    ASSUME ReaderInv, NEW bytes, Grown(bytes),
           UNCHANGED <<reader, offset, undecoded, buffer, yielded, start, open, reading, truncated, cut>>
    PROVE  ReaderInv'
<1>1. /\ written \in Seq(Byte) /\ bytes \in Seq(Byte) /\ written' = written \o bytes
      /\ Len(written') = Len(written) + Len(bytes)
      /\ written' \in Seq(Byte) /\ Len(written) \in Nat /\ Len(bytes) \in Nat
      /\ \A i \in 1 .. Len(written) : written'[i] = written[i]
    <2>1. written \in Seq(Byte) /\ bytes \in Seq(Byte) /\ written' = written \o bytes
        BY DEF Grown, ReaderInv, ReaderTypes
    <2> DEFINE u == written \o bytes
    <2>2. /\ u \in Seq(Byte) /\ Len(u) = Len(written) + Len(bytes)
          /\ \A i \in 1 .. Len(written) + Len(bytes) : u[i] = IF i <= Len(written) THEN written[i] ELSE bytes[i - Len(written)]
        BY <2>1, ConcatProperties
    <2>3. Len(written) \in Nat /\ Len(bytes) \in Nat
        BY <2>1
    <2> HIDE DEF u
    <2>4. \A i \in 1 .. Len(written) : u[i] = written[i]
        BY <2>2, <2>3
    <2> QED
        BY <2>1, <2>2, <2>3, <2>4 DEF u
<1>2. ReaderTypes'
    BY <1>1 DEF ReaderInv, ReaderTypes, Grown
<1>3. ~truncated => (offset > 0 => offset \in 1 .. Len(written)) /\ offset <= Len(written')
    <2>1. offset \in 0 .. MaxBytes
        BY DEF ReaderInv, ReaderTypes
    <2>2. offset \in Int /\ offset >= 0
        BY <2>1
    <2> QED
        BY <1>1, <2>2 DEF ReaderInv, ReaderPlaces
<1>4. ReaderPlaces'
    <2>0. ReaderPlaces /\ Formed(written') /\ start \in Nat /\ offset \in 0 .. MaxBytes
        BY DEF ReaderInv, ReaderTypes, Grown
    <2>0a. offset \in Int /\ offset >= 0
        BY <2>0
    <2>1. undecoded # <<>> => reader = "output" /\ ~truncated
        BY <2>0 DEF ReaderPlaces
    <2>2. undecoded # <<>> => offset > start /\ written'[offset] = First
        BY <1>1, <1>3, <2>0, <2>0a, <2>1 DEF ReaderPlaces
    <2>3. reader # "output" /\ ~truncated /\ ~cut => offset = 0 \/ written'[offset] # First
        BY <1>1, <1>3, <2>0, <2>0a DEF ReaderPlaces
    <2> QED
        BY <1>3, <2>0, <2>2, <2>3 DEF ReaderPlaces
<1>5. LinesAreWhole'
    <2>1. SUFFICES ASSUME ~truncated PROVE LinesAreWhole'
        BY DEF LinesAreWhole
    <2> DEFINE k == Taken
    <2>2. start \in 0 .. Len(written) /\ k \in start .. Len(written)
        BY <2>1, TakenPlaces
    <2> HIDE DEF k
    <2>3. SubSeq(written \o bytes, start + 1, k) = SubSeq(written, start + 1, k)
        BY <1>1, <2>2, PartOfMore
    <2>4. SubSeq(written', start + 1, offset - Len(undecoded)) = SubSeq(written, start + 1, offset - Len(undecoded))
        BY <1>1, <2>3 DEF k, Taken
    <2>5. LinesAreWhole
        BY DEF ReaderInv
    <2> QED
        BY <2>4, <2>5 DEF LinesAreWhole
<1> QED
    BY <1>2, <1>4, <1>5 DEF ReaderInv

LEMMA ReaderBegins ==
    ASSUME ReaderInit
    PROVE  ReaderInv
<1>1. written \in {<<>>, <<Newline>>, <<First, Second>>}
    BY DEF ReaderInit
<1>2. /\ written \in Seq(Byte) /\ Len(written) <= 2 /\ Len(written) \in Nat /\ Formed(written)
      /\ Len(written) > 0 => written[Len(written)] # First
    <2>1. CASE written = <<>>
        BY <2>1 DEF Formed
    <2>2. CASE written = <<Newline>>
        BY <2>2 DEF Formed, Byte, Newline, First, Second
    <2>3. CASE written = <<First, Second>>
        <3>1. written \in Seq(Byte) /\ Len(written) = 2 /\ written[1] = First /\ written[2] = Second
            BY <2>3 DEF Byte
        <3>2. First # Second /\ 2 - 1 = 1 /\ 1 + 1 = 2 /\ \A i \in 1 .. 2 : i = 1 \/ i = 2
            BY DEF First, Second
        <3> QED
            BY <3>1, <3>2 DEF Formed
    <2> QED
        BY <1>1, <2>1, <2>2, <2>3
<1>3. offset \in 0 .. Len(written) /\ start = offset /\ (offset = 0 \/ offset = Len(written))
    BY <1>2 DEF ReaderInit
<1>4. ReaderTypes
    <2>1. Len(written) <= MaxBytes /\ offset \in 0 .. MaxBytes /\ start \in Nat /\ start <= offset
        BY <1>2, <1>3, ReaderAssumption
    <2>2. /\ reader \in {"tail", "tailAll", "output"} /\ undecoded = <<>> /\ buffer = <<>> /\ yielded = <<>>
          /\ open = TRUE /\ reading = "reading" /\ truncated = FALSE /\ cut = FALSE
        BY DEF ReaderInit
    <2>3. <<>> \in Seq(Text1) /\ <<>> \in Seq(Seq(Text1))
        BY EmptySeq
    <2> QED
        BY <1>2, <2>1, <2>2, <2>3 DEF ReaderTypes
<1>5. ReaderPlaces
    BY <1>2, <1>3 DEF ReaderInit, ReaderPlaces
<1>6. LinesAreWhole
    <2>1. undecoded = <<>> /\ Len(<<>>) = 0 /\ offset \in Nat
        BY <1>2, <1>3 DEF ReaderInit
    <2>2. start + 1 \in Int /\ offset - Len(undecoded) \in Int /\ offset - Len(undecoded) < start + 1
        BY <1>3, <2>1
    <2>3. SubSeq(written, start + 1, offset - Len(undecoded)) = <<>>
        BY <2>2, SubSeqEmpty
    <2> QED
        BY <2>3, NoLines DEF LinesAreWhole, ReaderInit
<1> QED
    BY <1>4, <1>5, <1>6 DEF ReaderInv

\* What Buffered makes of the text that is read.
Fed(chunk) ==
    /\ buffer' = Last(Lines(buffer \o chunk))
    /\ yielded' = yielded \o Front(Lines(buffer \o chunk))

LEMMA FedType ==
    ASSUME ReaderInv, NEW chunk \in Seq(Byte \cup {Broken}), Fed(chunk)
    PROVE  buffer' \in Seq(Text1) /\ yielded' \in Seq(Seq(Text1))
<1> DEFINE A == Byte \cup {Broken}
           ls == Lines(buffer \o chunk)
<1>1. A \ {Newline} = Text1 /\ Text1 \subseteq A
    BY DEF Byte, Text1, Newline, First, Second, Broken
<1>2. buffer \in Seq(Text1) /\ yielded \in Seq(Seq(Text1))
    BY DEF ReaderInv, ReaderTypes
<1>3. buffer \o chunk \in Seq(A)
    <2>1. Seq(Text1) \subseteq Seq(A)
        BY <1>1, SeqMonotonic
    <2> HIDE DEF A
    <2>2. buffer \in Seq(A)
        BY <1>2, <2>1
    <2> QED
        BY <2>2, ConcatProperties DEF A
<1> HIDE DEF A
<1>4. Front(ls) \in Seq(Seq(A \ {Newline})) /\ Last(ls) \in Seq(A \ {Newline})
    BY <1>3, LinesType
<1> QED
    BY <1>1, <1>2, <1>4, ConcatProperties DEF Fed

\* What was read so far, and the bytes read next.
LEMMA FedLines ==
    ASSUME ReaderInv, ~truncated, ~cut, reading # "ended", NEW chunk \in Seq(Byte), Fed(chunk)
    PROVE  yielded' = Front(Lines(ReadSoFar \o chunk)) /\ buffer' = Last(Lines(ReadSoFar \o chunk))
<1> DEFINE read == ReadSoFar
<1>1. read \in Seq(Byte)
    BY TakenPlaces
<1>2. yielded = Front(Lines(read)) /\ buffer = Last(Lines(read))
    BY DEF ReaderInv, LinesAreWhole, ReadSoFar, Taken
<1> HIDE DEF read
<1>3. Front(Lines(read \o chunk)) = yielded \o Front(Lines(buffer \o chunk)) /\ Last(Lines(read \o chunk)) = Last(Lines(buffer \o chunk))
    <2>1. GoesOn(read, chunk, Front(Lines(read)), Last(Lines(read)))
        BY <1>1, LinesGoOn
    <2> QED
        BY <1>2, <2>1 DEF GoesOn
<1> QED
    BY <1>3 DEF read, Fed

LEMMA TailKeeps ==
    ASSUME ReaderInv, TailReads
    PROVE  ReaderInv'
<1> DEFINE n == Len(written)
           raw == SubSeq(written, offset + 1, n)
           chunk == Decoded(raw)
<1>1. /\ reader # "output" /\ reading = "reading" /\ n > offset
      /\ offset' = n /\ cut' = (cut \/ ~Whole(written)) /\ Fed(chunk)
      /\ UNCHANGED <<reader, written, undecoded, start, open, reading, truncated>>
    BY DEF TailReads, Buffered, Fed
<1>2. /\ written \in Seq(Byte) /\ n \in Nat /\ n <= MaxBytes /\ offset \in Int /\ offset >= 0 /\ MaxBytes \in Int
      /\ start \in Nat /\ start <= offset /\ undecoded = <<>> /\ Formed(written) /\ cut \in BOOLEAN
    <2>1. offset \in 0 .. MaxBytes
        BY DEF ReaderInv, ReaderTypes
    <2>2. MaxBytes \in Int
        BY ReaderAssumption
    <2> QED
        BY <1>1, <2>1, <2>2 DEF ReaderInv, ReaderTypes, ReaderPlaces
<1>3. /\ offset \in 0 .. n /\ n \in offset .. n /\ n \in 1 .. n
    BY <1>1, <1>2
<1>4. /\ raw \in Seq(Byte) /\ Len(raw) = n - offset
      /\ \A i \in 1 .. n - offset : raw[i] = written[offset + i]
    <2> DEFINE m == offset
    <2>1. m \in 0 .. Len(written) /\ Len(written) \in m .. Len(written)
        BY <1>3
    <2> HIDE DEF m
    <2> DEFINE r == SubSeq(written, m + 1, Len(written))
    <2>2. /\ r \in Seq(Byte) /\ Len(r) = Len(written) - m
          /\ \A i \in 1 .. Len(written) - m : r[i] = written[m + i]
        BY <1>2, <2>1, PartOf
    <2> QED
        BY <2>2 DEF m
<1> HIDE DEF raw
<1>5. chunk \in Seq(Byte \cup {Broken})
    BY <1>4, DecodedType
<1>6. ReaderTypes'
    <2>1. buffer' \in Seq(Text1) /\ yielded' \in Seq(Seq(Text1))
        BY <1>1, <1>5, FedType
    <2>2. offset' \in 0 .. MaxBytes /\ start <= offset' /\ cut' \in BOOLEAN
        BY <1>1, <1>2
    <2> QED
        BY <1>1, <2>1, <2>2 DEF ReaderInv, ReaderTypes
<1>7. ReaderPlaces'
    <2>1. ~cut' => written[n] # First
        <3>1. written # <<>>
            BY <1>1, <1>2, EmptySeq
        <3> QED
            BY <1>1, <3>1 DEF Whole, Last
    <2> QED
        BY <1>1, <1>2, <2>1 DEF ReaderInv, ReaderPlaces
<1>8. LinesAreWhole'
    <2>1. SUFFICES ASSUME ~truncated', ~cut' PROVE LinesAreWhole'
        BY DEF LinesAreWhole
    <2>2. ~truncated /\ ~cut /\ Whole(written)
        BY <1>1, <1>2, <2>1
    <2>3. Formed(raw) /\ Whole(raw)
        <3>1. \A i \in 1 .. n - offset : /\ offset + i \in 1 .. n /\ (i < n - offset => offset + i < n)
                                         /\ (offset + i) + 1 = offset + (i + 1) /\ (offset + i) - 1 = offset + (i - 1)
                                         /\ (i > 1 => i - 1 \in 1 .. n - offset)
                                         /\ (i < n - offset => i + 1 \in 1 .. n - offset)
            BY <1>2
        <3>2. ASSUME NEW i \in 1 .. n - offset, raw[i] = Second PROVE i > 1 /\ raw[i - 1] = First
            <4>1. written[offset + i] = Second /\ offset + i \in 1 .. n
                BY <1>4, <3>1, <3>2
            <4>2. offset + i > 1 /\ written[(offset + i) - 1] = First
                BY <4>1, <1>2 DEF Formed
            <4>3. i > 1
                <5>1. SUFFICES ASSUME i = 1 PROVE FALSE
                    BY <1>2
                <5>2. offset > 0 /\ written[offset] = First
                    BY <1>2, <4>2, <5>1
                <5> QED
                    BY <1>1, <2>2, <5>2 DEF ReaderInv, ReaderPlaces
            <4> QED
                BY <1>4, <3>1, <4>2, <4>3
        <3>3. ASSUME NEW i \in 1 .. n - offset, raw[i] = First, i < n - offset PROVE raw[i + 1] = Second
            <4>1. written[offset + i] = First /\ offset + i \in 1 .. n /\ offset + i < n
                BY <1>4, <3>1, <3>3
            <4>2. written[(offset + i) + 1] = Second
                BY <4>1, <1>2 DEF Formed
            <4> QED
                BY <1>4, <3>1, <3>3, <4>2
        <3>4. Whole(raw)
            <4>1. n - offset \in 1 .. n - offset /\ offset + (n - offset) = n
                BY <1>1, <1>2
            <4>2. raw[n - offset] = written[n]
                BY <1>4, <4>1
            <4>3. written # <<>>
                BY <1>1, <1>2, EmptySeq
            <4>4. written[n] # First
                BY <2>2, <4>3 DEF Whole, Last
            <4> QED
                BY <1>4, <4>2, <4>4 DEF Whole, Last
        <3> QED
            BY <1>4, <3>2, <3>3, <3>4 DEF Formed
    <2>4. chunk = raw
        BY <1>4, <2>3, WholeIsDecoded
    <2>5. yielded' = Front(Lines(ReadSoFar \o raw)) /\ buffer' = Last(Lines(ReadSoFar \o raw))
        <3>1. Fed(raw)
            BY <1>1, <2>4
        <3> QED
            BY <1>1, <1>4, <2>2, <3>1, FedLines
    <2>6. Taken = offset /\ start \in 0 .. Len(written) /\ offset \in start .. Len(written) /\ Len(written) \in offset .. Len(written)
        BY <1>2, <1>3, <2>2, TakenPlaces
    <2>7. ReadSoFar \o raw = SubSeq(written, start + 1, n)
        <3> DEFINE m == offset
        <3>1. m \in start .. Len(written) /\ Len(written) \in m .. Len(written)
            BY <2>6
        <3> HIDE DEF m
        <3>2. SubSeq(written, start + 1, m) \o SubSeq(written, m + 1, Len(written)) = SubSeq(written, start + 1, Len(written))
            BY <1>2, <2>6, <3>1, PartsJoin
        <3> QED
            BY <2>6, <3>2 DEF m, raw, ReadSoFar
    <2>8. SubSeq(written', start' + 1, offset' - Len(undecoded')) = SubSeq(written, start + 1, n)
        <3>1. Len(undecoded') = 0
            BY <1>1, <1>2
        <3>2. offset' - Len(undecoded') = n
            BY <1>1, <1>2, <3>1
        <3> QED
            BY <1>1, <3>2
    <2>9. reading' # "ended"
        BY <1>1
    <2> QED
        BY <2>5, <2>7, <2>8, <2>9 DEF LinesAreWhole
<1> QED
    BY <1>6, <1>7, <1>8 DEF ReaderInv

LEMMA OutputKeeps ==
    ASSUME ReaderInv, NEW n \in 1 .. MaxBytes, OutputReads(n)
    PROVE  ReaderInv'
<1> DEFINE bytes == undecoded \o SubSeq(written, offset + 1, n)
           chunk == IF Whole(bytes) THEN bytes ELSE Front(bytes)
           from == Taken
           raw == SubSeq(written, from + 1, n)
           to == IF Whole(bytes) THEN n ELSE n - 1
<1>1. /\ reader = "output" /\ reading = "reading" /\ offset < n /\ n <= Len(written)
      /\ undecoded' = (IF Whole(bytes) THEN <<>> ELSE <<First>>) /\ Fed(chunk) /\ offset' = n
      /\ UNCHANGED <<reader, written, start, open, reading, truncated, cut>>
    BY DEF OutputReads, Buffered, Fed
<1>2. /\ written \in Seq(Byte) /\ Len(written) \in Nat /\ offset \in 0 .. MaxBytes /\ start \in Nat /\ start <= offset
      /\ undecoded \in {<<>>, <<First>>} /\ Formed(written) /\ ~truncated /\ ~cut
      /\ n \in Nat /\ n >= 1 /\ (undecoded # <<>> => offset > start /\ written[offset] = First)
    BY <1>1 DEF ReaderInv, ReaderTypes, ReaderPlaces
<1>2a. offset \in Nat
    BY <1>2
<1>3. /\ start \in 0 .. Len(written) /\ from \in start .. Len(written) /\ from \in 0 .. Len(written)
      /\ (undecoded = <<>> => from = offset) /\ (undecoded # <<>> => from = offset - 1)
    BY <1>2, TakenPlaces
<1> HIDE DEF from
<1>4. from < n /\ n \in from .. Len(written) /\ from \in Nat
    BY <1>1, <1>2, <1>2a, <1>3
<1>5. bytes = raw
    <2>1. CASE undecoded = <<>>
        <3> DEFINE r == SubSeq(written, offset + 1, n)
        <3>1. r \in Seq(Byte)
            <4> DEFINE m == offset
            <4>1. m \in 0 .. Len(written) /\ n \in m .. Len(written)
                BY <1>1, <1>2, <1>2a
            <4> HIDE DEF m
            <4>2. SubSeq(written, m + 1, n) \in Seq(Byte)
                BY <1>2, <4>1, PartOf
            <4> QED
                BY <4>2 DEF m
        <3> HIDE DEF r
        <3>2. <<>> \o r = r
            BY <3>1, ConcatEmptySeq
        <3> QED
            BY <1>3, <2>1, <3>2 DEF r
    <2>2. CASE undecoded = <<First>>
        <3>1. from = offset - 1 /\ offset = from + 1 /\ written[offset] = First
            BY <1>2, <1>2a, <1>3, <2>2
        <3>2. from + 1 \in 1 .. Len(written) /\ n \in from + 1 .. Len(written)
            BY <1>1, <1>2, <1>4
        <3> DEFINE m == from + 1
        <3>3. m = offset /\ m \in 1 .. Len(written) /\ n \in m .. Len(written)
            BY <3>1, <3>2
        <3> HIDE DEF m
        <3>4. SubSeq(written, m, n) = <<written[m]>> \o SubSeq(written, m + 1, n)
            BY <1>2, <3>3, SubSeqRecursiveFirst
        <3> QED
            BY <2>2, <3>1, <3>3, <3>4 DEF m
    <2> QED
        BY <1>2, <2>1, <2>2
<1>6. /\ raw \in Seq(Byte) /\ Len(raw) = n - from
      /\ \A i \in 1 .. n - from : raw[i] = written[from + i]
    BY <1>2, <1>3, <1>4, PartOf
<1>7. raw # <<>> /\ (Whole(bytes) <=> written[n] # First)
    <2>1. n - from \in Nat /\ n - from > 0 /\ n - from \in 1 .. n - from /\ from + (n - from) = n
        BY <1>2, <1>4
    <2>2. raw # <<>>
        <3> HIDE DEF raw
        <3> QED
            BY <1>6, <2>1, EmptySeq
    <2>3. raw[n - from] = written[n]
        BY <1>6, <2>1
    <2> HIDE DEF bytes, raw
    <2> QED
        BY <1>5, <1>6, <2>2, <2>3 DEF Whole, Last
<1>8. to \in from .. Len(written) /\ chunk = SubSeq(written, from + 1, to)
    <2>1. CASE Whole(bytes)
        BY <1>4, <1>5, <2>1
    <2>2. CASE ~Whole(bytes)
        <3>1. n - 1 \in from .. Len(written)
            BY <1>1, <1>2, <1>4
        <3> DEFINE m == n - 1
        <3>2. m \in from .. Len(written) /\ m + 1 = n /\ n \in m .. Len(written) /\ n \in 1 .. Len(written)
            BY <1>1, <1>2, <3>1
        <3> HIDE DEF m
        <3> DEFINE first == SubSeq(written, from + 1, m)
                   one == SubSeq(written, m + 1, n)
        <3>3. raw = first \o one
            BY <1>2, <1>3, <3>2, PartsJoin
        <3>4. m \in 0 .. Len(written) /\ n - m = 1 /\ 1 \in 1 .. n - m
            BY <1>2, <1>4, <3>2
        <3>5. first \in Seq(Byte)
            BY <1>2, <1>3, <3>2, PartOf
        <3>6. one \in Seq(Byte) /\ Len(one) = n - m
            BY <1>2, <3>2, <3>4, PartOf
        <3> HIDE DEF first, one
        <3>7. one # <<>>
            BY <3>4, <3>6, EmptySeq
        <3>8. Front(first \o one) = first \o Front(one)
            BY <3>5, <3>6, <3>7, FrontLastOfConcat
        <3>9. Front(one) \in Seq(Byte) /\ Len(Front(one)) = Len(one) - 1
            BY <3>6, <3>7, FrontLast
        <3>10. Front(one) = <<>>
            BY <3>4, <3>6, <3>9, EmptySeq
        <3>11. first \o <<>> = first
            BY <3>5, ConcatEmptySeq
        <3> HIDE DEF raw, bytes
        <3>12. Front(bytes) = first
            BY <1>5, <3>3, <3>8, <3>10, <3>11
        <3> QED
            BY <2>2, <3>1, <3>12 DEF first, m
    <2> QED
        BY <2>1, <2>2
<1> HIDE DEF bytes, raw, to, chunk
<1>9. chunk \in Seq(Byte)
    BY <1>2, <1>3, <1>8, PartOf
<1>10. ReaderTypes'
    <2>1. buffer' \in Seq(Text1) /\ yielded' \in Seq(Seq(Text1))
        <3>1. chunk \in Seq(Byte \cup {Broken})
            <4>1. Seq(Byte) \subseteq Seq(Byte \cup {Broken})
                BY SeqMonotonic
            <4> QED
                BY <1>9, <4>1
        <3> QED
            BY <1>1, <3>1, FedType
    <2>2. offset' \in 0 .. MaxBytes /\ start <= offset'
        BY <1>1, <1>2, <1>2a
    <2>3. undecoded' \in {<<>>, <<First>>}
        BY <1>1
    <2> QED
        BY <1>1, <2>1, <2>2, <2>3 DEF ReaderInv, ReaderTypes
<1>11. ReaderPlaces'
    <2>1. undecoded' # <<>> => offset' > start /\ written[offset'] = First
        BY <1>1, <1>2, <1>2a, <1>7
    <2> QED
        BY <1>1, <1>2, <2>1 DEF ReaderInv, ReaderPlaces
<1>12. LinesAreWhole'
    <2>1. yielded' = Front(Lines(ReadSoFar \o chunk)) /\ buffer' = Last(Lines(ReadSoFar \o chunk))
        <3>1. reading # "ended"
            BY <1>1
        <3> QED
            BY <1>1, <1>2, <1>9, <3>1, FedLines
    <2>2. ReadSoFar \o chunk = SubSeq(written, start + 1, to)
        <3>1. SubSeq(written, start + 1, from) \o SubSeq(written, from + 1, to) = SubSeq(written, start + 1, to)
            BY <1>2, <1>3, <1>8, PartsJoin
        <3> QED
            BY <1>8, <3>1 DEF ReadSoFar, from
    <2>3. offset' - Len(undecoded') = to
        <3>1. Len(<<>>) = 0 /\ Len(<<First>>) = 1
            OBVIOUS
        <3>2. CASE Whole(bytes)
            <4>1. Len(undecoded') = 0
                BY <1>1, <3>1, <3>2
            <4> QED
                BY <1>1, <1>2, <3>2, <4>1 DEF to
        <3>3. CASE ~Whole(bytes)
            <4>1. Len(undecoded') = 1
                BY <1>1, <3>1, <3>3
            <4> QED
                BY <1>1, <1>2, <3>3, <4>1 DEF to
        <3> QED
            BY <3>2, <3>3
    <2>4. SubSeq(written', start' + 1, offset' - Len(undecoded')) = SubSeq(written, start + 1, to)
        BY <1>1, <2>3
    <2>5. reading' # "ended"
        BY <1>1
    <2> QED
        BY <2>1, <2>2, <2>4, <2>5 DEF LinesAreWhole
<1> QED
    BY <1>10, <1>11, <1>12 DEF ReaderInv

LEMMA LastLineKeeps ==
    ASSUME ReaderInv, LastLine
    PROVE  ReaderInv'
<1>1. /\ reader = "output" /\ reading = "reading" /\ reading' = "ended" /\ buffer' = <<>>
      /\ yielded' = IF buffer = <<>> THEN yielded ELSE Append(yielded, buffer)
      /\ UNCHANGED <<reader, written, offset, undecoded, start, open, truncated, cut>>
    BY DEF LastLine
<1>2. ReaderTypes'
    <2>1. buffer' \in Seq(Text1) /\ yielded' \in Seq(Seq(Text1))
        <3>1. buffer \in Seq(Text1) /\ yielded \in Seq(Seq(Text1)) /\ <<>> \in Seq(Text1)
            BY EmptySeq DEF ReaderInv, ReaderTypes
        <3> QED
            BY <1>1, <3>1, AppendProperties
    <2> QED
        BY <1>1, <2>1 DEF ReaderInv, ReaderTypes
<1>3. ReaderPlaces'
    BY <1>1 DEF ReaderInv, ReaderPlaces
<1>4. LinesAreWhole'
    <2> DEFINE lines == Lines(SubSeq(written, start + 1, offset - Len(undecoded)))
    <2>1. ~truncated /\ ~cut
        BY <1>1 DEF ReaderInv, ReaderPlaces
    <2>2. yielded = Front(lines) /\ buffer = Last(lines)
        BY <1>1, <2>1 DEF ReaderInv, LinesAreWhole
    <2>3. lines \in Seq(Seq(Byte \ {Newline})) /\ lines # <<>>
        BY <2>1, TakenPlaces, LinesType DEF ReadSoFar, Taken
    <2>4. lines' = lines
        BY <1>1
    <2> HIDE DEF lines
    <2>5. Append(Front(lines), Last(lines)) = lines
        <3>1. Front(lines) \o <<Last(lines)>> = lines
            BY <2>3, FrontLast
        <3>2. Front(lines) \in Seq(Seq(Byte \ {Newline})) /\ Last(lines) \in Seq(Byte \ {Newline})
            BY <2>3, FrontLast
        <3> QED
            BY <3>1, <3>2, AppendIsConcat
    <2>6. yielded' = IF Last(lines) = <<>> THEN Front(lines) ELSE lines
        BY <1>1, <2>2, <2>5
    <2> QED
        BY <1>1, <2>4, <2>6 DEF LinesAreWhole, lines
<1> QED
    BY <1>2, <1>3, <1>4 DEF ReaderInv

LEMMA ReaderKeeps == ReaderInv /\ [ReaderNext]_readerVars => ReaderInv'
<1> SUFFICES ASSUME ReaderInv, [ReaderNext]_readerVars PROVE ReaderInv'
    OBVIOUS
<1>1. CASE SomebodyWrites
    BY <1>1, WriterGrows, GrowKeeps
<1>2. CASE Truncates
    <2>1. written' = <<>> /\ truncated' = TRUE /\ UNCHANGED <<reader, offset, undecoded, buffer, yielded, start, open, reading, cut>> /\ reader # "output"
        BY <1>2 DEF Truncates
    <2>2. written' \in Seq(Byte) /\ Len(written') = 0 /\ Formed(written')
        BY <2>1 DEF Formed
    <2>3. ReaderTypes'
        BY <2>1, <2>2, ReaderAssumption DEF ReaderInv, ReaderTypes
    <2>4. ReaderPlaces'
        BY <2>1, <2>2 DEF ReaderInv, ReaderPlaces
    <2>5. LinesAreWhole'
        BY <2>1 DEF LinesAreWhole
    <2> QED
        BY <2>3, <2>4, <2>5 DEF ReaderInv
<1>3. CASE WriterEnds
    BY <1>3 DEF WriterEnds, ReaderInv, ReaderTypes, ReaderPlaces, LinesAreWhole
<1>4. CASE TailReads
    BY <1>4, TailKeeps
<1>5. CASE \E n \in 1 .. MaxBytes : OutputReads(n)
    BY <1>5, OutputKeeps
<1>6. CASE LastLine
    BY <1>6, LastLineKeeps
<1>7. CASE ConsumerLeaves
    <2>1. reading = "reading" /\ reading' = "left"
        BY <1>7 DEF ConsumerLeaves
    <2> QED
        BY <1>7, <2>1 DEF ConsumerLeaves, ReaderInv, ReaderTypes, ReaderPlaces, LinesAreWhole
<1>8. CASE UNCHANGED readerVars
    BY <1>8 DEF readerVars, ReaderInv, ReaderTypes, ReaderPlaces, LinesAreWhole
<1> QED
    BY <1>1, <1>2, <1>3, <1>4, <1>5, <1>6, <1>7, <1>8 DEF ReaderNext

LEMMA ReaderInvariant == ReaderSpec => []ReaderInv
<1>1. ReaderInit => ReaderInv
    BY ReaderBegins
<1> QED
    BY <1>1, ReaderKeeps, PTL DEF ReaderSpec

\* The lines a consumer is given are those of what was read, however it came in pieces
\* and wherever they end, for texts of any length.
THEOREM LinesStayWhole == ReaderSpec => []LinesAreWhole
<1>1. ReaderInv => LinesAreWhole
    BY DEF ReaderInv
<1> QED
    BY <1>1, ReaderInvariant, PTL

\* A reader is never ahead of what was written, and holds back one undecoded byte at
\* most (lineStream(), tailStream() and the readers of a command's output).
THEOREM ReaderTyped == ReaderSpec => []ReaderTypeOK
<1>1. ReaderInv => ReaderTypeOK
    BY DEF ReaderInv, ReaderTypes, ReaderTypeOK, Text1
<1> QED
    BY <1>1, ReaderInvariant, PTL

----------------------------------------------------------------------------
(* Pipes: types, and what sTake asks for.                                  *)

PipeTypes ==
    /\ stages \in Seq(StageName) /\ PipeTypeOK
    /\ sourced \in Seq(Yieldable)
    /\ DOMAIN memory = DOMAIN stages /\ DOMAIN toYield = DOMAIN stages
    /\ (pipe = "running" \/ at # 0)

LEMMA PipeTyped1 == PipeInit => PipeTypes
<1> SUFFICES ASSUME PipeInit PROVE PipeTypes
    OBVIOUS
<1>1. stages \in Seq(StageName)
    BY StreamAssumption DEF PipeInit
<1>2. Len(stages) \in Nat /\ Sink \in 0 .. Sink
    BY <1>1 DEF Sink
<1>3. sourced \in Seq(Yieldable) /\ Len(sourced) <= MaxItems
    BY StreamAssumption DEF PipeInit
<1>4. at = Sink /\ at \in 0 .. Sink /\ at # 0
    BY <1>2 DEF PipeInit, Sink
<1>5. DOMAIN memory = DOMAIN stages /\ DOMAIN toYield = DOMAIN stages /\ ended \subseteq DOMAIN stages
    BY DEF PipeInit
<1>6. passing = "end" /\ pipe = "new" /\ dry = FALSE
    BY DEF PipeInit
<1> QED
    BY <1>1, <1>3, <1>4, <1>5, <1>6 DEF PipeTypes, PipeTypeOK

LEMMA PipeTyped2 == PipeTypes /\ [PipeNext]_pipeVars => PipeTypes'
<1> SUFFICES ASSUME PipeTypes, [PipeNext]_pipeVars PROVE PipeTypes'
    OBVIOUS
<1>1. /\ stages \in Seq(StageName) /\ Len(stages) \in Nat /\ DOMAIN stages = 1 .. Len(stages)
      /\ at \in 0 .. Sink /\ Sink = Len(stages) + 1
    BY DEF PipeTypes, PipeTypeOK, Sink
<1>2. at \in Nat
    BY <1>1
<1>3. CASE SinkPulls
    BY <1>1, <1>3 DEF SinkPulls, Pull, PipeTypes, PipeTypeOK, Sink
<1>4. CASE SinkTakes
    BY <1>1, <1>4 DEF SinkTakes, Pull, PipeTypes, PipeTypeOK, Sink
<1>5. CASE SinkEnds
    BY <1>1, <1>5 DEF SinkEnds, PipeTypes, PipeTypeOK, Sink
<1>6. ASSUME NEW i \in Yieldable, SourceYields(i) PROVE PipeTypes'
    <2>1. sourced' \in Seq(Yieldable) /\ Len(sourced') = Len(sourced) + 1 /\ Len(sourced) \in Nat
        BY <1>6, AppendProperties DEF SourceYields, PipeTypes
    <2>2. Len(sourced') <= MaxItems
        BY <1>6, <2>1, StreamAssumption DEF SourceYields
    <2>3. at' = 1 /\ at' \in 0 .. Sink' /\ pipe = "running"
        BY <1>1, <1>6 DEF SourceYields, Pass, Sink, PipeTypes
    <2> QED
        BY <1>6, <2>1, <2>2, <2>3 DEF SourceYields, Pass, PipeTypes, PipeTypeOK, Sink
<1>7. CASE SourceEnds
    <2>1. at' = 1 /\ at' \in 0 .. Sink' /\ pipe = "running"
        BY <1>1, <1>7 DEF SourceEnds, Pass, Sink, PipeTypes
    <2> QED
        BY <1>7, <2>1 DEF SourceEnds, Pass, PipeTypes, PipeTypeOK, Sink
<1>8. CASE StagePulled
    <2>1. at \in 1 .. Len(stages) /\ pipe = "running"
        BY <1>1, <1>8 DEF StagePulled, AtStage
    <2>2. at' \in {at - 1, at + 1} /\ passing' \in {"pull", "item", "end"}
        BY <1>8 DEF StagePulled, Pass, Pull
    <2>3. at' \in 0 .. Sink'
        BY <1>1, <1>8, <2>1, <2>2 DEF StagePulled, Sink
    <2>4. DOMAIN toYield' = DOMAIN toYield
        BY <1>8 DEF StagePulled
    <2> QED
        BY <1>8, <2>1, <2>2, <2>3, <2>4 DEF StagePulled, PipeTypes, PipeTypeOK, Sink
<1>9. CASE StageGiven
    <2>1. at \in 1 .. Len(stages) /\ pipe = "running"
        BY <1>1, <1>9 DEF StageGiven, AtStage
    <2>2. 1 .. at \subseteq DOMAIN stages
        BY <1>1, <2>1
    <2>3. ended' \subseteq DOMAIN stages /\ DOMAIN toYield' = DOMAIN toYield /\ DOMAIN memory' = DOMAIN memory
        BY <1>9, <2>2 DEF StageGiven, PipeTypes, PipeTypeOK
    <2> QED
        BY <1>1, <1>9, <2>1, <2>3 DEF StageGiven, PipeTypes, PipeTypeOK, Sink
<1>10. CASE StageEnds
    <2>1. at \in 1 .. Len(stages) /\ pipe = "running"
        BY <1>1, <1>10 DEF StageEnds, AtStage
    <2>3. ended' \subseteq DOMAIN stages /\ DOMAIN toYield' = DOMAIN toYield
        BY <1>1, <1>10, <2>1 DEF StageEnds, PipeTypes, PipeTypeOK
    <2> QED
        BY <1>1, <1>10, <2>1, <2>3 DEF StageEnds, PipeTypes, PipeTypeOK, Sink
<1>11. CASE StageThrows
    <2>1. at # 0
        BY <1>1, <1>11 DEF StageThrows, AtStage
    <2> QED
        BY <1>1, <1>11, <2>1 DEF StageThrows, PipeTypes, PipeTypeOK, Sink
<1>12. CASE UNCHANGED pipeVars
    BY <1>12 DEF pipeVars, PipeTypes, PipeTypeOK, Sink
<1> QED
    BY <1>3, <1>4, <1>5, <1>6, <1>7, <1>8, <1>9, <1>10, <1>11, <1>12 DEF PipeNext


LEMMA PipeTyped == PipeSpec => []PipeTypes
    BY PipeTyped1, PipeTyped2, PTL DEF PipeSpec

\* What sTake remembers is as much as the source has yielded to it, one less while it
\* is given an item, as long as it has not returned.
TakeCounts ==
    stages # <<>> /\ stages[1] = "take" =>
        /\ memory[1] \in Seq(Yieldable)
        /\ Len(sourced) <= N + 1
        /\ at = 0 => 1 \notin ended
        /\ at = 1 /\ passing = "item" => /\ 1 \notin ended /\ item \in Yieldable
                                         /\ Len(memory[1]) <= N /\ Len(sourced) = Len(memory[1]) + 1
        /\ ~(at = 1 /\ passing = "item") /\ 1 \notin ended => /\ Len(memory[1]) <= N
                                                              /\ Len(sourced) = Len(memory[1])

LEMMA TakeCounts1 == PipeInit => TakeCounts
<1> SUFFICES ASSUME PipeInit, stages # <<>>
             PROVE  /\ memory[1] \in Seq(Yieldable)
                    /\ Len(sourced) <= N + 1
                    /\ at = 0 => 1 \notin ended
                    /\ ~(at = 1 /\ passing = "item")
                    /\ Len(memory[1]) <= N /\ Len(sourced) = Len(memory[1])
    BY DEF TakeCounts
<1>1. stages \in Seq(StageName) /\ 1 \in DOMAIN stages
    <2>1. stages \in Seq(StageName)
        BY StreamAssumption DEF PipeInit
    <2> QED
        BY <2>1
<1>2. memory[1] = <<>> /\ sourced = <<>> /\ ended = {} /\ passing = "end"
    BY <1>1 DEF PipeInit
<1> QED
    BY <1>2, StreamAssumption

LEMMA TakeCounts2 == PipeTypes /\ TakeCounts /\ [PipeNext]_pipeVars => TakeCounts'
<1> SUFFICES ASSUME PipeTypes, TakeCounts, [PipeNext]_pipeVars, stages' # <<>>, stages'[1] = "take"
             PROVE  TakeCounts'
    BY DEF TakeCounts
<1> DEFINE c == Len(memory[1])
           n == Len(sourced)
<1>1. stages' = stages
    BY DEF PipeNext, pipeVars, SinkPulls, SinkTakes, SinkEnds, SourceEnds, SourceYields, StagePulled, StageGiven,
           StageEnds, StageThrows
<1>2. /\ stages \in Seq(StageName) /\ Len(stages) \in Nat /\ Len(stages) >= 1 /\ DOMAIN stages = 1 .. Len(stages)
      /\ 1 \in DOMAIN stages /\ at \in Nat /\ Sink = Len(stages) + 1 /\ at <= Sink
      /\ sourced \in Seq(Yieldable) /\ n \in Nat
      /\ DOMAIN memory = DOMAIN stages
    <2>1. stages \in Seq(StageName) /\ stages # <<>> /\ at \in 0 .. Sink
        BY <1>1 DEF PipeTypes, PipeTypeOK
    <2>2. Len(stages) \in Nat /\ Len(stages) >= 1
        BY <2>1
    <2> QED
        BY <2>1, <2>2 DEF PipeTypes, Sink
<1>3. /\ memory[1] \in Seq(Yieldable) /\ c \in Nat
      /\ n <= N + 1
      /\ at = 0 => 1 \notin ended
      /\ at = 1 /\ passing = "item" => 1 \notin ended /\ item \in Yieldable /\ c <= N /\ n = c + 1
      /\ ~(at = 1 /\ passing = "item") /\ 1 \notin ended => c <= N /\ n = c
    BY <1>1 DEF TakeCounts
<1> HIDE DEF c, n
<1>4. N \in Nat
    BY StreamAssumption
<1>5. CASE SinkPulls
    <2>1. ~(at = 1 /\ passing = "item") /\ at' = at - 1 /\ passing' = "pull" /\ at' # 0
        BY <1>2, <1>5 DEF SinkPulls, Pull
    <2> QED
        BY <1>2, <1>3, <1>5, <2>1 DEF SinkPulls, TakeCounts, c, n
<1>6. CASE SinkTakes
    <2>1. ~(at = 1 /\ passing = "item") /\ ~(at' = 1 /\ passing' = "item") /\ at' # 0
        BY <1>2, <1>6 DEF SinkTakes, Pull
    <2> QED
        BY <1>2, <1>3, <1>6, <2>1 DEF SinkTakes, TakeCounts, c, n
<1>7. CASE SinkEnds
    BY <1>3, <1>7 DEF SinkEnds, TakeCounts, c, n
<1>8. ASSUME NEW i \in Yieldable, SourceYields(i) PROVE TakeCounts'
    <2>1. at = 0 /\ at' = 1 /\ passing' = "item" /\ item' = i /\ ended' = ended /\ memory' = memory
        BY <1>2, <1>8 DEF SourceYields, Pass
    <2>2. Len(sourced') = n + 1
        BY <1>2, <1>8, AppendProperties DEF SourceYields, n
    <2>3. c <= N /\ n = c /\ 1 \notin ended
        BY <1>3, <2>1
    <2> QED
        BY <1>3, <1>4, <2>1, <2>2, <2>3 DEF TakeCounts, c
<1>9. CASE SourceEnds
    <2>1. at = 0 /\ at' = 1 /\ passing' = "end"
        BY <1>2, <1>9 DEF SourceEnds, Pass
    <2> QED
        BY <1>3, <1>9, <2>1 DEF SourceEnds, TakeCounts, c, n
<1>10. CASE StagePulled
    <2>1. at >= 1 /\ ~(at = 1 /\ passing = "item") /\ ended' = ended /\ memory' = memory /\ sourced' = sourced
        BY <1>2, <1>10 DEF StagePulled, AtStage
    <2>2. ~(at' = 1 /\ passing' = "item")
        BY <1>2, <1>10, <2>1 DEF StagePulled, Pass, Pull
    <2>3. at' = 0 => 1 \notin ended
        <3>1. SUFFICES ASSUME at' = 0 PROVE 1 \notin ended
            OBVIOUS
        <3>2. at' # at + 1
            BY <1>2, <3>1
        <3>3. at' = at - 1 /\ at \notin ended
            BY <1>10, <3>2 DEF StagePulled, Pass, Pull
        <3>4. at = 1
            BY <1>2, <3>1, <3>3
        <3> QED
            BY <3>3, <3>4
    <2> QED
        BY <1>3, <2>1, <2>2, <2>3 DEF TakeCounts, c, n
<1>11. CASE StageGiven
    <2> DEFINE made == Made(stages[at], memory[at], item)
    <2>1. /\ at \in DOMAIN stages /\ passing = "item" /\ passing' = "pull" /\ at' = at /\ sourced' = sourced
          /\ memory' = [memory EXCEPT ![at] = made.memory]
          /\ ended' = IF made.returns THEN ended \cup 1 .. at ELSE ended
        BY <1>11 DEF StageGiven, AtStage
    <2>2. at' # 0 /\ ~(at' = 1 /\ passing' = "item")
        BY <1>2, <2>1
    <2>3. CASE at # 1
        <3>1. memory'[1] = memory[1]
            BY <1>2, <2>1, <2>3
        <3>2. 1 \notin ended' => 1 \notin ended
            BY <2>1
        <3> QED
            BY <1>3, <2>1, <2>2, <2>3, <3>1, <3>2 DEF TakeCounts, c, n
    <2>4. CASE at = 1
        <3>1. 1 \notin ended /\ item \in Yieldable /\ c <= N /\ n = c + 1
            BY <1>3, <2>1, <2>4
        <3>2. made = Take(memory[1], item)
            BY <1>1, <2>4 DEF Made
        <3>3. memory'[1] = made.memory
            BY <1>2, <2>1, <2>4
        <3>4. CASE c >= N
            <4>1. made = Returning
                BY <3>2, <3>4 DEF Take, c
            <4>2. made.returns /\ made.memory = <<>>
                BY <4>1 DEF Returning
            <4>3. 1 \in ended' /\ memory'[1] = <<>>
                BY <1>2, <2>1, <2>4, <3>3, <4>2
            <4> HIDE DEF made
            <4>4. <<>> \in Seq(Yieldable)
                BY EmptySeq
            <4>5. sourced' = sourced /\ n <= N + 1
                BY <1>3, <2>1
            <4> QED
                BY <2>2, <4>3, <4>4, <4>5 DEF TakeCounts, n
        <3>5. CASE ~(c >= N)
            <4>1. made = Yielding(<<item>>, Append(memory[1], item))
                BY <1>3, <1>4, <3>2, <3>5 DEF Take, Counted, c
            <4>2. ~made.returns /\ made.memory = Append(memory[1], item)
                BY <4>1 DEF Yielding
            <4> HIDE DEF made
            <4>3. /\ ended' = ended /\ memory'[1] \in Seq(Yieldable) /\ Len(memory'[1]) = c + 1
                BY <1>3, <2>1, <3>1, <3>3, <4>2, AppendProperties DEF c
            <4> QED
                BY <1>3, <1>4, <2>1, <2>2, <3>1, <3>5, <4>3 DEF TakeCounts, n
        <3> QED
            BY <3>4, <3>5
    <2> QED
        BY <2>3, <2>4
<1>12. CASE StageEnds
    <2>1. /\ at \in DOMAIN stages /\ passing = "end" /\ passing' = "pull" /\ at' = at
          /\ ended' = ended \cup {at} /\ UNCHANGED <<memory, sourced, item>>
        BY <1>12 DEF StageEnds, AtStage
    <2>2. at' # 0 /\ ~(at' = 1 /\ passing' = "item") /\ ~(at = 1 /\ passing = "item")
        BY <1>2, <2>1
    <2> QED
        BY <1>3, <2>1, <2>2 DEF TakeCounts, c, n
<1>13. CASE StageThrows
    BY <1>3, <1>13 DEF StageThrows, TakeCounts, c, n
<1>14. CASE UNCHANGED pipeVars
    BY <1>3, <1>14 DEF pipeVars, TakeCounts, c, n
<1> QED
    BY <1>5, <1>6, <1>7, <1>8, <1>9, <1>10, <1>11, <1>12, <1>13, <1>14 DEF PipeNext

\* sTake(N), first in a pipe of any stages, asks its source for no item beyond the
\* one it does not pass on (sTake() of stream.ts counts before it looks).
THEOREM TakeAlwaysAsksOnceMore == PipeSpec => []TakeAsksOnceMore
<1>1. TakeCounts => TakeAsksOnceMore
    BY DEF TakeCounts, TakeAsksOnceMore
<1> QED
    BY <1>1, PipeTyped, TakeCounts1, TakeCounts2, PTL DEF PipeSpec

\* In a pipe of any stages, control is always at a generator that it has, the source
\* or the sink, and only its own stages have returned (streamPipe() of stream.ts).
THEOREM PipesTyped == PipeSpec => []PipeTypeOK
<1>1. PipeTypes => PipeTypeOK
    BY DEF PipeTypes
<1> QED
    BY <1>1, PipeTyped, PTL

----------------------------------------------------------------------------
(* Pipes: sequences that are flattened, and what keeps its order.          *)

\* An item of a pipe: what Yieldable's are, and what stages make of them.
PipeItem == Seq(Nat)

\* A sequence that is flattened, item by item.
Flattens(s, h) ==
    /\ h \in [0 .. Len(s) -> PipeItem]
    /\ h[0] = <<>>
    /\ \A k \in 1 .. Len(s) : h[k] = h[k - 1] \o s[k]

LEMMA FlatteningExists ==
    ASSUME NEW s \in Seq(PipeItem)
    PROVE  \E h : Flattens(s, h)
<1> DEFINE n == Len(s)
           V == PipeItem
           base == <<>>
           step == [k \in 1 .. n |-> [v \in V |-> v \o s[k]]]
<1>1. n \in Nat /\ base \in V /\ \A k \in 1 .. n : s[k] \in V
    BY ElementOfSeq DEF PipeItem
<1>2. step \in [1 .. n -> [V -> V]]
    <2>1. ASSUME NEW k \in 1 .. n, NEW v \in V PROVE v \o s[k] \in V
        BY <1>1, ConcatProperties DEF PipeItem
    <2> HIDE DEF V, n
    <2> QED
        BY <2>1
<1>3. \A k \in 1 .. n, v \in V : step[k][v] = v \o s[k]
    OBVIOUS
<1> HIDE DEF n, V, base, step
<1>4. PICK g \in [SUBSET (1 .. n) -> V] : Folding(g, base, n, step)
    BY <1>1, <1>2, FoldExists
<1>5. Stepping(g, V, base, n, step)
    <2>1. g[{}] = base
        BY <1>4 DEF Folding
    <2> QED
        BY <1>4, <2>1 DEF Folding, Stepping
<1>6. PICK h \in [0 .. n -> V] : Trace(h, base, n, step)
    BY <1>1, <1>2, <1>5, FoldTrace
<1>7. h[0] = <<>>
    BY <1>6 DEF Trace, base
<1>8. ASSUME NEW k \in 1 .. n PROVE h[k] = h[k - 1] \o s[k]
    <2>1. h[k - 1] \in V
        BY <1>1, <1>6
    <2>2. h[k] = step[k][h[k - 1]]
        BY <1>6 DEF Trace
    <2> QED
        BY <1>3, <2>1, <2>2
<1> QED
    BY <1>6, <1>7, <1>8 DEF Flattens, n, V

\* There is one way to flatten a sequence.
LEMMA FlatteningIsOne ==
    ASSUME NEW s, NEW h, NEW t, NEW g, Flattens(s, h), Flattens(t, g),
           NEW n \in Nat, n <= Len(s), n <= Len(t), Len(s) \in Nat, Len(t) \in Nat,
           \A k \in 1 .. n : s[k] = t[k]
    PROVE  h[n] = g[n]
<1> DEFINE Reached == {k \in Nat : k <= n => h[k] = g[k]}
<1>1. 0 \in Reached
    BY DEF Flattens
<1>2. ASSUME NEW k \in Nat, k \in Reached PROVE k + 1 \in Reached
    <2>1. SUFFICES ASSUME k + 1 <= n PROVE h[k + 1] = g[k + 1]
        OBVIOUS
    <2>2. h[k] = g[k]
        BY <1>2, <2>1
    <2>3. k + 1 \in 1 .. Len(s) /\ k + 1 \in 1 .. Len(t) /\ k + 1 \in 1 .. n /\ (k + 1) - 1 = k
        BY <2>1
    <2>4. h[k + 1] = h[k] \o s[k + 1]
        BY <2>3 DEF Flattens
    <2>5. g[k + 1] = g[k] \o t[k + 1]
        BY <2>3 DEF Flattens
    <2>6. s[k + 1] = t[k + 1]
        BY <2>3
    <2> QED
        BY <2>2, <2>4, <2>5, <2>6
<1> HIDE DEF Reached
<1>3. \A k \in Nat : k \in Reached => k + 1 \in Reached
    BY <1>2
<1>4. n \in Reached
    BY <1>1, <1>3, Induction
<1> QED
    BY <1>4 DEF Reached

LEMMA FlattenSteps ==
    ASSUME NEW s \in Seq(PipeItem), NEW h, Flattens(s, h)
    PROVE  FlattenSeq(s) = h[Len(s)]
<1> DEFINE n == Len(s)
           Is(f) == f = [i \in 1 .. n |-> IF i = 1 THEN s[i] ELSE f[i - 1] \o s[i]]
           it == CHOOSE f : Is(f)
<1>1. n \in Nat /\ \A k \in 1 .. n : s[k] \in PipeItem
    BY ElementOfSeq
<1>2. CASE n = 0
    <2>1. s = <<>>
        BY <1>2, EmptySeq
    <2>2. FlattenSeq(s) = s
        BY <1>2 DEF FlattenSeq
    <2>3. h[0] = <<>>
        BY DEF Flattens
    <2> QED
        BY <1>2, <2>1, <2>2, <2>3
<1>3. CASE n # 0
    <2>1. FlattenSeq(s) = it[n]
        BY <1>3 DEF FlattenSeq
    <2> DEFINE f == [i \in 1 .. n |-> h[i]]
    <2>2. ASSUME NEW i \in 1 .. n
          PROVE  f[i] = IF i = 1 THEN s[i] ELSE f[i - 1] \o s[i]
        <3>1. h[i] = h[i - 1] \o s[i]
            BY DEF Flattens
        <3>2. CASE i = 1
            <4>1. h[1] = <<>> \o s[1]
                <5>1. h[0] = <<>> /\ i - 1 = 0
                    BY <3>2 DEF Flattens
                <5> QED
                    BY <3>1, <3>2, <5>1
            <4>2. s[1] \in Seq(Nat)
                BY <1>1, <3>2 DEF PipeItem
            <4>3. <<>> \o s[1] = s[1]
                BY <4>2, ConcatEmptySeq
            <4> QED
                BY <3>2, <4>1, <4>3
        <3>3. CASE i # 1
            <4>1. i - 1 \in 1 .. n
                BY <1>1, <3>3
            <4> QED
                BY <3>1, <3>3, <4>1
        <3> QED
            BY <3>2, <3>3
    <2>3. Is(f)
        BY <2>2
    <2>4. Is(it)
        <3> HIDE DEF f, n
        <3> QED
            BY <2>3
    <2> HIDE DEF it
    <2> DEFINE Reached == {k \in Nat : k + 1 <= n => it[k + 1] = h[k + 1]}
    <2>5. 0 \in Reached
        <3>1. 1 \in 1 .. n
            BY <1>1, <1>3
        <3>2. it[1] = s[1]
            BY <2>4, <3>1
        <3>3. f[1] = s[1]
            BY <2>2, <3>1
        <3> QED
            BY <3>1, <3>2, <3>3
    <2>6. ASSUME NEW k \in Nat, k \in Reached PROVE k + 1 \in Reached
        <3>1. SUFFICES ASSUME k + 2 <= n PROVE it[k + 2] = h[k + 2]
            <4>1. (k + 1) + 1 = k + 2
                OBVIOUS
            <4> QED
                BY <4>1
        <3>2. k + 2 \in 1 .. n /\ k + 2 # 1 /\ (k + 2) - 1 = k + 1 /\ k + 1 <= n
            BY <1>1, <3>1
        <3>3. it[k + 1] = h[k + 1]
            BY <2>6, <3>2
        <3>4. it[k + 2] = it[k + 1] \o s[k + 2]
            BY <2>4, <3>2
        <3>5. h[k + 2] = h[k + 1] \o s[k + 2]
            BY <3>2 DEF Flattens
        <3> QED
            BY <3>3, <3>4, <3>5
    <2> HIDE DEF Reached
    <2>7. \A k \in Nat : k \in Reached => k + 1 \in Reached
        BY <2>6
    <2>8. \A k \in Nat : k \in Reached
        BY <2>5, <2>7, Induction
    <2>9. n - 1 \in Nat /\ (n - 1) + 1 = n
        BY <1>1, <1>3
    <2>10. n - 1 \in Reached
        BY <2>8, <2>9
    <2>11. it[n] = h[n]
        BY <2>9, <2>10 DEF Reached
    <2> QED
        BY <2>1, <2>11
<1> QED
    BY <1>2, <1>3

LEMMA FlattenType ==
    ASSUME NEW s \in Seq(PipeItem)
    PROVE  FlattenSeq(s) \in PipeItem
<1>1. PICK h : Flattens(s, h)
    BY FlatteningExists
<1>2. FlattenSeq(s) = h[Len(s)]
    BY <1>1, FlattenSteps
<1>3. Len(s) \in 0 .. Len(s)
    BY LenProperties
<1> QED
    BY <1>1, <1>2, <1>3 DEF Flattens

\* One more item adds its own items.
LEMMA FlattenAppend ==
    ASSUME NEW s \in Seq(PipeItem), NEW i \in PipeItem
    PROVE  FlattenSeq(Append(s, i)) = FlattenSeq(s) \o i
<1> DEFINE t == Append(s, i)
           n == Len(s)
<1>1. /\ t \in Seq(PipeItem) /\ Len(t) = n + 1 /\ n \in Nat
      /\ \A k \in 1 .. n : t[k] = s[k]
      /\ t[n + 1] = i
    BY AppendProperties, LenProperties
<1> HIDE DEF t, n
<1>2. PICK h : Flattens(s, h)
    BY FlatteningExists
<1>3. PICK g : Flattens(t, g)
    BY <1>1, FlatteningExists
<1>4. h[n] = g[n]
    <2>1. n <= Len(s) /\ n <= Len(t) /\ Len(s) \in Nat /\ Len(t) \in Nat
        BY <1>1 DEF n
    <2>2. \A k \in 1 .. n : s[k] = t[k]
        BY <1>1
    <2> QED
        BY <1>1, <1>2, <1>3, <2>1, <2>2, FlatteningIsOne
<1>5. g[n + 1] = g[n] \o t[n + 1]
    <2>1. n + 1 \in 1 .. Len(t) /\ (n + 1) - 1 = n
        BY <1>1
    <2> QED
        BY <1>3, <2>1 DEF Flattens
<1>6. FlattenSeq(s) = h[n] /\ FlattenSeq(t) = g[n + 1]
    BY <1>1, <1>2, <1>3, FlattenSteps DEF n
<1> QED
    BY <1>1, <1>4, <1>5, <1>6 DEF t

----------------------------------------------------------------------------
(* Pipes: places, and the nth of them.                                     *)

\* The nth of some places.
Nth(places, n) == Min({m \in places : Cardinality({p \in places : p <= m}) = n})

\* How many places there are up to one.
UpTo(places, m) == Cardinality({p \in places : p <= m})

LEMMA PlacesCount ==
    ASSUME NEW l \in Nat, NEW P \in SUBSET (1 .. l)
    PROVE  /\ IsFiniteSet(P) /\ Cardinality(P) \in Nat
            /\ l + 1 \notin P /\ P \cup {l + 1} \in SUBSET (1 .. l + 1)
           /\ Cardinality(P \cup {l + 1}) = Cardinality(P) + 1
<1>1. IsFiniteSet(1 .. l)
    BY FS_Interval
<1>2. IsFiniteSet(P)
    BY <1>1, FS_Subset
<1>3. Cardinality(P) \in Nat
    BY <1>2, FS_CardinalityType
<1>4. l + 1 \notin P
    OBVIOUS
<1>5. Cardinality(P \cup {l + 1}) = Cardinality(P) + 1
    BY <1>2, <1>4, FS_AddElement
<1>6. P \cup {l + 1} \in SUBSET (1 .. l + 1)
    <2>1. \A x \in P : x \in 1 .. l + 1
        OBVIOUS
    <2>2. l + 1 \in 1 .. l + 1
        OBVIOUS
    <2> QED
        BY <2>1, <2>2
<1> QED
    BY <1>2, <1>3, <1>4, <1>5, <1>6

\* Each number up to that of the places is reached at one of them.
Reaches(P) == \A n \in 1 .. Cardinality(P) : \E m \in P : UpTo(P, m) = n

LEMMA EachIsReached ==
    ASSUME NEW l \in Nat, NEW P \in SUBSET (1 .. l)
    PROVE  Reaches(P)
<1> DEFINE Reached == {k \in Nat : \A Q \in SUBSET (1 .. k) : Reaches(Q)}
<1>1. 0 \in Reached
    <2>1. ASSUME NEW Q \in SUBSET (1 .. 0) PROVE Reaches(Q)
        <3>1. Q = {} /\ Cardinality({}) = 0
            BY FS_EmptySet
        <3> QED
            BY <3>1 DEF Reaches
    <2> QED
        BY <2>1
<1>2. ASSUME NEW k \in Nat, k \in Reached PROVE k + 1 \in Reached
    <2>1. SUFFICES ASSUME NEW Q \in SUBSET (1 .. k + 1) PROVE Reaches(Q)
        OBVIOUS
    <2>2. CASE k + 1 \notin Q
        <3>1. Q \in SUBSET (1 .. k)
            BY <2>2
        <3> QED
            BY <1>2, <3>1
    <2>3. CASE k + 1 \in Q
        <3> DEFINE R == Q \ {k + 1}
        <3>1. R \in SUBSET (1 .. k) /\ Q = R \cup {k + 1} /\ k + 1 \notin R
            BY <2>3
        <3> HIDE DEF R
        <3>2. Reaches(R)
            BY <1>2, <3>1
        <3>3. Cardinality(Q) = Cardinality(R) + 1 /\ Cardinality(R) \in Nat
            BY <3>1, PlacesCount
        <3>4. ASSUME NEW m \in R PROVE UpTo(Q, m) = UpTo(R, m)
            <4>1. {p \in Q : p <= m} = {p \in R : p <= m}
                BY <3>1, <3>4
            <4> QED
                BY <4>1 DEF UpTo
        <3>5. UpTo(Q, k + 1) = Cardinality(R) + 1
            <4>1. {p \in Q : p <= k + 1} = Q
                <5>1. \A p \in Q : p <= k + 1
                    OBVIOUS
                <5> QED
                    BY <5>1
            <4> QED
                BY <3>3, <4>1 DEF UpTo
        <3>6. ASSUME NEW n \in 1 .. Cardinality(Q) PROVE \E m \in Q : UpTo(Q, m) = n
            <4>1. CASE n = Cardinality(R) + 1
                BY <2>3, <3>5, <4>1
            <4>2. CASE n # Cardinality(R) + 1
                <5>1. n \in 1 .. Cardinality(R)
                    BY <3>3, <4>2
                <5>2. PICK m \in R : UpTo(R, m) = n
                    BY <3>2, <5>1 DEF Reaches
                <5> QED
                    BY <3>1, <3>4, <5>2
            <4> QED
                BY <4>1, <4>2
        <3> QED
            BY <3>6 DEF Reaches
    <2> QED
        BY <2>2, <2>3
<1> HIDE DEF Reached
<1>3. \A k \in Nat : k \in Reached => k + 1 \in Reached
    BY <1>2
<1>4. l \in Reached
    BY <1>1, <1>3, Induction
<1> QED
    BY <1>4 DEF Reached

\* The nth of the places is one of them.
LEMMA NthIsPlace ==
    ASSUME NEW l \in Nat, NEW P \in SUBSET (1 .. l), NEW n \in 1 .. Cardinality(P)
    PROVE  Nth(P, n) \in P
<1> DEFINE S == {m \in P : UpTo(P, m) = n}
<1>1. PICK m \in P : UpTo(P, m) = n
    BY EachIsReached DEF Reaches
<1>2. S \in SUBSET (1 .. l) /\ S # {} /\ S \in SUBSET P
    BY <1>1
<1> HIDE DEF S
<1>3. \E a \in S : \A x \in S : a <= x
    BY <1>2, LeastAndGreatest
<1>4. Min(S) \in S
    BY <1>3 DEF Min
<1>5. Nth(P, n) = Min(S)
    BY DEF Nth, S, UpTo
<1> QED
    BY <1>2, <1>4, <1>5

\* A place that follows the others is the last.
LEMMA NthOfMore ==
    ASSUME NEW l \in Nat, NEW P \in SUBSET (1 .. l)
    PROVE  /\ \A n \in 1 .. Cardinality(P) : Nth(P \cup {l + 1}, n) = Nth(P, n)
           /\ Nth(P \cup {l + 1}, Cardinality(P) + 1) = l + 1
<1> DEFINE Q == P \cup {l + 1}
           c == Cardinality(P)
           S(R, n) == {m \in R : UpTo(R, m) = n}
<1>1. c \in Nat /\ Cardinality(Q) = c + 1 /\ l + 1 \notin P
    BY PlacesCount
<1>2. ASSUME NEW m \in P PROVE UpTo(Q, m) = UpTo(P, m)
    <2>1. {p \in Q : p <= m} = {p \in P : p <= m}
        BY <1>2
    <2> QED
        BY <2>1 DEF UpTo
<1>3. UpTo(Q, l + 1) = c + 1
    <2>1. {p \in Q : p <= l + 1} = Q
        <3>1. \A p \in Q : p <= l + 1
            OBVIOUS
        <3> QED
            BY <3>1
    <2> QED
        BY <1>1, <2>1 DEF UpTo
<1>4. ASSUME NEW m \in P PROVE UpTo(P, m) \in Nat /\ UpTo(P, m) <= c
    <2>1. IsFiniteSet(P) /\ {p \in P : p <= m} \in SUBSET P
        BY PlacesCount
    <2> DEFINE T == {p \in P : p <= m}
    <2>2. IsFiniteSet(T) /\ Cardinality(T) \in Nat /\ Cardinality(T) <= c
        <3>1. T \subseteq P
            BY <2>1
        <3> HIDE DEF T
        <3>2. IsFiniteSet(T) /\ Cardinality(T) <= Cardinality(P)
            BY <2>1, <3>1, FS_Subset
        <3> QED
            BY <3>2, FS_CardinalityType
    <2> QED
        BY <2>2 DEF UpTo
<1>5. ASSUME NEW n \in 1 .. c PROVE Nth(Q, n) = Nth(P, n)
    <2>1. S(Q, n) = S(P, n)
        <3>1. n # c + 1
            BY <1>1
        <3> HIDE DEF c
        <3> QED
            BY <1>2, <1>3, <3>1
    <2>2. Nth(Q, n) = Min(S(Q, n)) /\ Nth(P, n) = Min(S(P, n))
        BY DEF Nth, UpTo
    <2> HIDE DEF S
    <2> QED
        BY <2>1, <2>2
<1>6. Nth(Q, c + 1) = l + 1
    <2>1. S(Q, c + 1) = {l + 1}
        <3>1. \A m \in P : UpTo(Q, m) # c + 1
            <4> TAKE m \in P
            <4>1. UpTo(Q, m) \in Nat /\ UpTo(Q, m) <= c
                BY <1>2, <1>4
            <4> HIDE DEF c, Q
            <4> QED
                BY <1>1, <4>1
        <3> HIDE DEF c
        <3> QED
            BY <1>3, <3>1
    <2>2. Nth(Q, c + 1) = Min(S(Q, c + 1))
        BY DEF Nth, UpTo
    <2>3. Min({l + 1}) = l + 1
        BY DEF Min
    <2> HIDE DEF S
    <2> QED
        BY <2>1, <2>2, <2>3
<1> QED
    BY <1>5, <1>6

LEMMA KeptType ==
    ASSUME NEW A, NEW s \in Seq(A), NEW P \in SUBSET (1 .. Len(s))
    PROVE  /\ Kept(s, P) \in Seq(A) /\ Len(Kept(s, P)) = Cardinality(P)
           /\ Cardinality(P) \in Nat
           /\ \A n \in 1 .. Cardinality(P) : Kept(s, P)[n] = s[Nth(P, n)] /\ Nth(P, n) \in P
<1>1. Len(s) \in Nat
    BY LenProperties
<1>2. Cardinality(P) \in Nat
    BY <1>1, PlacesCount
<1> DEFINE c == Cardinality(P)
           k == [n \in 1 .. c |-> s[Nth(P, n)]]
<1>3. Kept(s, P) = k
    BY DEF Kept, Nth
<1>4. ASSUME NEW n \in 1 .. c PROVE Nth(P, n) \in P
    BY <1>1, NthIsPlace
<1>5. ASSUME NEW n \in 1 .. c PROVE s[Nth(P, n)] \in A
    <2>1. Nth(P, n) \in 1 .. Len(s)
        BY <1>4
    <2> QED
        BY <2>1, ElementOfSeq
<1> HIDE DEF c
<1>6. k \in Seq(A) /\ Len(k) = c
    <2>1. k \in [1 .. c -> A]
        BY <1>5
    <2>2. c \in Nat
        BY <1>2 DEF c
    <2> QED
        BY <2>1, <2>2
<1> QED
    BY <1>2, <1>3, <1>4, <1>6 DEF c

\* One more item, at none of the places.
LEMMA KeptOfMore ==
    ASSUME NEW A, NEW s \in Seq(A), NEW i \in A, NEW P \in SUBSET (1 .. Len(s))
    PROVE  /\ Kept(Append(s, i), P) = Kept(s, P)
           /\ Kept(Append(s, i), P \cup {Len(s) + 1}) = Append(Kept(s, P), i)
<1> DEFINE t == Append(s, i)
           l == Len(s)
           Q == P \cup {l + 1}
           c == Cardinality(P)
<1>1. /\ t \in Seq(A) /\ Len(t) = l + 1 /\ l \in Nat
      /\ \A n \in 1 .. l : t[n] = s[n]
      /\ t[l + 1] = i
    BY AppendProperties, LenProperties
<1>2. P \in SUBSET (1 .. l) /\ P \in SUBSET (1 .. Len(t)) /\ Q \in SUBSET (1 .. Len(t))
    <2>1. P \in SUBSET (1 .. l)
        OBVIOUS
    <2> HIDE DEF t, l
    <2>2. \A x \in 1 .. l : x \in 1 .. l + 1
        BY <1>1
    <2>3. l + 1 \in 1 .. l + 1
        BY <1>1
    <2> QED
        BY <1>1, <2>1, <2>2, <2>3
<1>3. Cardinality(Q) = c + 1 /\ c \in Nat
    BY <1>1, PlacesCount
<1> HIDE DEF t, l, Q, c
<1>4. /\ Kept(s, P) \in Seq(A) /\ Len(Kept(s, P)) = c
      /\ \A n \in 1 .. c : Kept(s, P)[n] = s[Nth(P, n)] /\ Nth(P, n) \in P
    BY KeptType DEF c
<1>5. /\ Kept(t, P) \in Seq(A) /\ Len(Kept(t, P)) = c
      /\ \A n \in 1 .. c : Kept(t, P)[n] = t[Nth(P, n)]
    BY <1>1, <1>2, KeptType DEF c
<1>6. /\ Kept(t, Q) \in Seq(A) /\ Len(Kept(t, Q)) = c + 1
      /\ \A n \in 1 .. c + 1 : Kept(t, Q)[n] = t[Nth(Q, n)]
    <2>1. /\ Kept(t, Q) \in Seq(A) /\ Len(Kept(t, Q)) = Cardinality(Q)
          /\ \A n \in 1 .. Cardinality(Q) : Kept(t, Q)[n] = t[Nth(Q, n)]
        BY <1>1, <1>2, KeptType
    <2> QED
        BY <1>3, <2>1
<1>7. (\A n \in 1 .. c : Nth(Q, n) = Nth(P, n)) /\ Nth(Q, c + 1) = l + 1
    BY <1>1, <1>2, NthOfMore DEF Q, c
<1>8. ASSUME NEW n \in 1 .. c PROVE Kept(t, P)[n] = Kept(s, P)[n]
    <2>1. Nth(P, n) \in 1 .. l
        BY <1>2, <1>4
    <2> QED
        BY <1>1, <1>4, <1>5, <2>1
<1>9. Kept(t, P) = Kept(s, P)
    BY <1>3, <1>4, <1>5, <1>8, SeqEqual
<1> DEFINE a == Append(Kept(s, P), i)
<1>10. /\ a \in Seq(A) /\ Len(a) = c + 1
       /\ \A n \in 1 .. c : a[n] = Kept(s, P)[n]
       /\ a[c + 1] = i
    BY <1>4, AppendProperties
<1> HIDE DEF a
<1>11. ASSUME NEW n \in 1 .. c + 1 PROVE Kept(t, Q)[n] = a[n]
    <2>1. CASE n = c + 1
        BY <1>1, <1>3, <1>6, <1>7, <1>10, <2>1
    <2>2. CASE n # c + 1
        <3>1. n \in 1 .. c
            BY <1>3, <2>2
        <3>2. Kept(t, Q)[n] = t[Nth(P, n)]
            BY <1>6, <1>7, <3>1
        <3> QED
            BY <1>5, <1>8, <1>10, <3>1, <3>2
    <2> QED
        BY <2>1, <2>2
<1>12. Kept(t, Q) = a
    BY <1>3, <1>6, <1>10, <1>11, SeqEqual
<1> QED
    BY <1>9, <1>12 DEF a, t, l, Q

----------------------------------------------------------------------------
(* Pipes: one more item, stage by stage: what is yielded and remembered.   *)

LEMMA YieldingFields ==
    ASSUME NEW out, NEW m
    PROVE  /\ Yielding(out, m).yields = out /\ Yielding(out, m).memory = m
           /\ Yielding(out, m).returns = FALSE
    BY DEF Yielding

LEMMA ReturningFields ==
    Returning.yields = <<>> /\ Returning.memory = <<>> /\ Returning.returns = TRUE
    BY DEF Returning

LEMMA ResultIs ==
    ASSUME NEW s, NEW w
    PROVE  /\ Result("filter", s, w) = Kept(s, {n \in DOMAIN s : Holds(s[n])})
           /\ Result("map", s, w) = [n \in DOMAIN s |-> Mapped(s[n])]
           /\ Result("flatMap", s, w) = [n \in DOMAIN FlattenSeq(s) |-> <<FlattenSeq(s)[n]>>]
           /\ Result("take", s, w) = SubSeq(s, 1, IF Len(s) < N THEN Len(s) ELSE N)
           /\ Result("skip", s, w) = SubSeq(s, N + 1, Len(s))
           /\ Result("unique", s, w) = Kept(s, {n \in DOMAIN s : \A m \in 1 .. n - 1 : s[m] # s[n]})
           /\ Result("chunk", s, w) = Groups(s, w)
           /\ Result("scan", s, w) = [n \in DOMAIN s |-> FlattenSeq(SubSeq(s, 1, n))]
           /\ Result("takeWhile", s, w) = SubSeq(s, 1, Leading(s))
           /\ Result("skipWhile", s, w) = SubSeq(s, Leading(s) + 1, Len(s))
<1>1. Result("filter", s, w) = Kept(s, {n \in DOMAIN s : Holds(s[n])})
    BY DEF Result
<1>2. Result("map", s, w) = [n \in DOMAIN s |-> Mapped(s[n])]
    BY DEF Result
<1>3. Result("flatMap", s, w) = [n \in DOMAIN FlattenSeq(s) |-> <<FlattenSeq(s)[n]>>]
    BY DEF Result
<1>4. Result("take", s, w) = SubSeq(s, 1, IF Len(s) < N THEN Len(s) ELSE N)
    BY DEF Result
<1>5. Result("skip", s, w) = SubSeq(s, N + 1, Len(s))
    BY DEF Result
<1>6. Result("unique", s, w) = Kept(s, {n \in DOMAIN s : \A m \in 1 .. n - 1 : s[m] # s[n]})
    BY DEF Result
<1>7. Result("chunk", s, w) = Groups(s, w)
    BY DEF Result
<1>8. Result("scan", s, w) = [n \in DOMAIN s |-> FlattenSeq(SubSeq(s, 1, n))]
    BY DEF Result
<1>9. Result("takeWhile", s, w) = SubSeq(s, 1, Leading(s))
    BY DEF Result
<1>10. Result("skipWhile", s, w) = SubSeq(s, Leading(s) + 1, Len(s))
    BY DEF Result
<1> QED
    BY <1>1, <1>2, <1>3, <1>4, <1>5, <1>6, <1>7, <1>8, <1>9, <1>10

LEMMA MadeIs ==
    ASSUME NEW mem, NEW i
    PROVE  /\ Made("filter", mem, i) = Filter(mem, i)
           /\ Made("map", mem, i) = Map(mem, i)
           /\ Made("flatMap", mem, i) = FlatMap(mem, i)
           /\ Made("take", mem, i) = Take(mem, i)
           /\ Made("skip", mem, i) = Skip(mem, i)
           /\ Made("unique", mem, i) = Unique(mem, i)
           /\ Made("chunk", mem, i) = Chunk(mem, i)
           /\ Made("scan", mem, i) = Scan(mem, i)
           /\ Made("takeWhile", mem, i) = TakeWhile(mem, i)
           /\ Made("skipWhile", mem, i) = SkipWhile(mem, i)
    BY DEF Made

\* The batch that is not full.
Size == IF N = 0 THEN 1 ELSE N
Begun(s) == SubSeq(s, Size * (Len(s) \div Size) + 1, Len(s))

\* What a stage remembers of the items it was given: for most of them less than all.
Remembers(stage, s, mem) ==
    /\ mem \in Seq(PipeItem)
    /\ stage = "take" => Len(mem) = Len(s)
    /\ stage = "skip" => Len(mem) = IF Len(s) < N THEN Len(s) ELSE N
    /\ stage = "unique" => Range(mem) = Range(s)
    /\ stage = "chunk" => mem = Begun(s)
    /\ stage = "scan" => mem = s
    /\ stage = "skipWhile" => /\ mem = <<>> => Leading(s) = Len(s)
                              /\ mem # <<>> => Leading(s) < Len(s)

\* The stage goes on after an item and yields this for it.
Continues(stage, s, i, out, m) ==
    /\ Result(stage, Append(s, i), FALSE) = Result(stage, s, FALSE) \o out
    /\ Remembers(stage, Append(s, i), m)
    /\ ~Over(stage, Append(s, i), FALSE)

\* The stage is over after an item, and makes nothing of it.
Ends(stage, s, i) ==
    /\ Result(stage, Append(s, i), FALSE) = Result(stage, s, FALSE)
    /\ Over(stage, Append(s, i), FALSE)

\* A stage that has made of what it was given what it is to make does so for one more.
Consumes(stage, s, i, mem) ==
    \/ Made(stage, mem, i) = Returning /\ Ends(stage, s, i)
    \/ \E out \in Seq(PipeItem), m \in Seq(PipeItem) :
           Made(stage, mem, i) = Yielding(out, m) /\ Continues(stage, s, i, out, m)

\* The stages that only their source ends.
LEMMA OverIs ==
    ASSUME NEW s, NEW stage \in StageName, stage \notin {"take", "takeWhile"}
    PROVE  ~Over(stage, s, FALSE)
    BY DEF Over

\* A sequence with one more item.
LEMMA MoreIs ==
    ASSUME NEW A, NEW s \in Seq(A), NEW i \in A
    PROVE  /\ Append(s, i) \in Seq(A) /\ Len(Append(s, i)) = Len(s) + 1 /\ Len(s) \in Nat
           /\ DOMAIN s = 1 .. Len(s) /\ DOMAIN Append(s, i) = 1 .. Len(s) + 1
           /\ \A n \in 1 .. Len(s) : Append(s, i)[n] = s[n] /\ s[n] \in A
           /\ Append(s, i)[Len(s) + 1] = i
           /\ Append(s, i) = s \o <<i>>
           /\ <<i>> \in Seq(A)
<1>1. /\ Append(s, i) \in Seq(A) /\ Len(Append(s, i)) = Len(s) + 1 /\ Len(s) \in Nat
      /\ \A n \in 1 .. Len(s) : Append(s, i)[n] = s[n]
      /\ Append(s, i)[Len(s) + 1] = i
    BY AppendProperties, LenProperties
<1>2. DOMAIN s = 1 .. Len(s)
    OBVIOUS
<1>3. DOMAIN Append(s, i) = 1 .. Len(s) + 1
    <2> DEFINE t == Append(s, i)
    <2>1. t \in Seq(A) /\ Len(t) = Len(s) + 1
        BY <1>1
    <2> HIDE DEF t
    <2>2. DOMAIN t = 1 .. Len(t)
        BY <2>1
    <2> QED
        BY <2>1, <2>2 DEF t
<1>4. \A n \in 1 .. Len(s) : s[n] \in A
    BY ElementOfSeq
<1>5. Append(s, i) = s \o <<i>>
    BY AppendIsConcat
<1>6. <<i>> \in Seq(A)
    OBVIOUS
<1> QED
    BY <1>1, <1>2, <1>3, <1>4, <1>5, <1>6

LEMMA GrowsByOne ==
    ASSUME NEW A, NEW r \in Seq(A), NEW q \in Seq(A), Len(q) = Len(r) + 1,
           \A n \in 1 .. Len(r) : q[n] = r[n]
    PROVE  q = r \o <<q[Len(r) + 1]>>
<1> DEFINE x == q[Len(r) + 1]
           t == Append(r, x)
<1>0. x \in A
    <2>1. Len(r) + 1 \in 1 .. Len(q)
        BY LenProperties
    <2> QED
        BY <2>1, ElementOfSeq
<1> HIDE DEF x
<1>1. /\ t \in Seq(A) /\ Len(t) = Len(r) + 1 /\ Len(r) \in Nat
      /\ \A n \in 1 .. Len(r) : t[n] = r[n]
      /\ t[Len(r) + 1] = x /\ t = r \o <<x>>
    BY <1>0, MoreIs
<1> HIDE DEF t
<1>2. ASSUME NEW n \in 1 .. Len(q) PROVE q[n] = t[n]
    <2>1. n = Len(r) + 1 \/ n \in 1 .. Len(r)
        BY <1>1
    <2> QED
        BY <1>1, <2>1 DEF x
<1> QED
    BY <1>1, <1>2, SeqEqual DEF x

\* What is taken out of a sequence with one more item.
LEMMA SubSeqOfMore ==
    ASSUME NEW A, NEW s \in Seq(A), NEW i \in A, NEW m \in Nat, m > 0
    PROVE  /\ \A n \in 0 .. Len(s) : SubSeq(Append(s, i), m, n) = SubSeq(s, m, n)
           /\ m <= Len(s) + 1 => SubSeq(Append(s, i), m, Len(s) + 1) = SubSeq(s, m, Len(s)) \o <<i>>
           /\ \A n \in 0 .. Len(s) : SubSeq(s, m, n) \in Seq(A)
<1> DEFINE t == Append(s, i)
<1>1. /\ t \in Seq(A) /\ Len(t) = Len(s) + 1 /\ Len(s) \in Nat
      /\ \A n \in 1 .. Len(s) : t[n] = s[n] /\ s[n] \in A
      /\ t[Len(s) + 1] = i /\ t = s \o <<i>>
    BY MoreIs
<1> HIDE DEF t
<1>2. ASSUME NEW n \in 0 .. Len(s) PROVE SubSeq(t, m, n) = SubSeq(s, m, n) /\ SubSeq(s, m, n) \in Seq(A)
    <2>1. \A k \in m .. n : t[k] = s[k] /\ s[k] \in A /\ t[k] \in A
        <3> TAKE k \in m .. n
        <3>1. k \in 1 .. Len(s)
            BY <1>1
        <3> QED
            BY <1>1, <3>1
    <2>2. m \in Int /\ n \in Int
        BY <1>1
    <2>3. /\ SubSeq(s, m, n) \in Seq(A) /\ Len(SubSeq(s, m, n)) = IF m <= n THEN n - m + 1 ELSE 0
          /\ \A k \in 1 .. n - m + 1 : SubSeq(s, m, n)[k] = s[m + k - 1]
        BY <2>1, <2>2, SubSeqProperties
    <2>4. /\ SubSeq(t, m, n) \in Seq(A) /\ Len(SubSeq(t, m, n)) = IF m <= n THEN n - m + 1 ELSE 0
          /\ \A k \in 1 .. n - m + 1 : SubSeq(t, m, n)[k] = t[m + k - 1]
        BY <2>1, <2>2, SubSeqProperties
    <2>5. ASSUME NEW k \in 1 .. Len(SubSeq(t, m, n)) PROVE SubSeq(t, m, n)[k] = SubSeq(s, m, n)[k]
        <3>1. k \in 1 .. n - m + 1 /\ m + k - 1 \in m .. n
            BY <2>2, <2>4
        <3> QED
            BY <2>1, <2>3, <2>4, <3>1
    <2> QED
        BY <2>3, <2>4, <2>5, SeqEqual
<1>3. ASSUME m <= Len(s) + 1 PROVE SubSeq(t, m, Len(s) + 1) = SubSeq(s, m, Len(s)) \o <<i>>
    <2> DEFINE l == Len(s) + 1
    <2>1. m \in 1 .. Len(t) /\ l \in m .. Len(t) /\ l - 1 = Len(s) /\ t[l] = i
        BY <1>1, <1>3
    <2> HIDE DEF l
    <2>2. SubSeq(t, m, l) = SubSeq(t, m, l - 1) \o <<t[l]>>
        BY <1>1, <2>1, SubSeqRecursiveSecond
    <2>3. SubSeq(t, m, Len(s)) = SubSeq(s, m, Len(s))
        <3>1. Len(s) \in 0 .. Len(s)
            BY <1>1
        <3> QED
            BY <1>2, <3>1
    <2> QED
        BY <2>1, <2>2, <2>3 DEF l
<1> QED
    BY <1>2, <1>3 DEF t

LEMMA FilterConsumes ==
    ASSUME NEW s \in Seq(PipeItem), NEW i \in PipeItem, NEW mem, Remembers("filter", s, mem)
    PROVE  Consumes("filter", s, i, mem)
<1> DEFINE t == Append(s, i)
           l == Len(s)
           P == {n \in 1 .. l : Holds(s[n])}
           out == IF Holds(i) THEN <<i>> ELSE <<>>
<1>1. /\ l \in Nat /\ DOMAIN s = 1 .. l /\ DOMAIN t = 1 .. l + 1
      /\ \A n \in 1 .. l : t[n] = s[n]
      /\ t[l + 1] = i /\ <<i>> \in Seq(PipeItem)
    BY MoreIs
<1>2. P \in SUBSET (1 .. l)
    OBVIOUS
<1>3. /\ Kept(t, P) = Kept(s, P) /\ Kept(t, P \cup {l + 1}) = Append(Kept(s, P), i)
      /\ Kept(s, P) \in Seq(PipeItem)
    <2>1. P \in SUBSET (1 .. Len(s))
        BY <1>2
    <2> HIDE DEF P
    <2>2. /\ Kept(Append(s, i), P) = Kept(s, P)
          /\ Kept(Append(s, i), P \cup {Len(s) + 1}) = Append(Kept(s, P), i)
        BY <2>1, KeptOfMore, ZenonT(40)
    <2>3. Kept(s, P) \in Seq(PipeItem)
        BY <2>1, KeptType
    <2> QED
        BY <2>2, <2>3
<1>4. Result("filter", s, FALSE) = Kept(s, P)
    BY <1>1, ResultIs, ZenonT(40)
<1>5. Result("filter", t, FALSE) = Kept(t, {n \in 1 .. l + 1 : Holds(t[n])})
    BY <1>1, ResultIs, ZenonT(40)
<1>6. {n \in 1 .. l + 1 : Holds(t[n])} = P \cup (IF Holds(i) THEN {l + 1} ELSE {})
    <2> HIDE DEF t, l
    <2>1. \A n : n \in 1 .. l + 1 <=> n \in 1 .. l \/ n = l + 1
        BY <1>1
    <2> QED
        BY <1>1, <2>1
<1>7. Made("filter", mem, i) = Yielding(out, mem)
    BY MadeIs DEF Filter
<1>8. out \in Seq(PipeItem) /\ mem \in Seq(PipeItem)
    BY <1>1 DEF Remembers
<1>9. Result("filter", t, FALSE) = Result("filter", s, FALSE) \o out
    <2> HIDE DEF t, l, P
    <2>1. CASE Holds(i)
        BY <1>3, <1>4, <1>5, <1>6, <2>1, AppendIsConcat
    <2>2. CASE ~Holds(i)
        BY <1>3, <1>4, <1>5, <1>6, <2>2, ConcatEmptySeq
    <2> QED
        BY <2>1, <2>2
<1>10. Remembers("filter", t, mem)
    BY DEF Remembers
<1>11. ~Over("filter", t, FALSE)
    BY OverIs DEF StageName
<1>12. Continues("filter", s, i, out, mem)
    BY <1>9, <1>10, <1>11 DEF Continues
<1> HIDE DEF out
<1> QED
    BY <1>7, <1>8, <1>12 DEF Consumes

\* A function on the first numbers is a sequence.
LEMMA IsSequence ==
    ASSUME NEW A, NEW n \in Nat, NEW f \in [1 .. n -> A]
    PROVE  f \in Seq(A) /\ Len(f) = n
    OBVIOUS

LEMMA MapConsumes ==
    ASSUME NEW s \in Seq(PipeItem), NEW i \in PipeItem, NEW mem, Remembers("map", s, mem)
    PROVE  Consumes("map", s, i, mem)
<1> DEFINE t == Append(s, i)
           l == Len(s)
           r == [n \in 1 .. l |-> Mapped(s[n])]
           q == [n \in 1 .. l + 1 |-> Mapped(t[n])]
           out == <<Mapped(i)>>
<1>1. /\ l \in Nat /\ DOMAIN s = 1 .. l /\ DOMAIN t = 1 .. l + 1 /\ t \in Seq(PipeItem)
      /\ \A n \in 1 .. l : t[n] = s[n] /\ s[n] \in PipeItem
      /\ t[l + 1] = i
    BY MoreIs
<1>2. \A x \in PipeItem : Mapped(x) \in PipeItem
    <2> TAKE x \in PipeItem
    <2>1. <<9>> \in Seq(Nat)
        OBVIOUS
    <2> QED
        BY <2>1, ConcatProperties DEF Mapped, PipeItem
<1>3. r \in Seq(PipeItem) /\ Len(r) = l
    BY <1>1, <1>2
<1>4. q \in Seq(PipeItem) /\ Len(q) = l + 1
    <2>1. \A n \in 1 .. l + 1 : t[n] \in PipeItem
        <3> HIDE DEF t, l
        <3>1. \A n \in 1 .. l + 1 : n \in 1 .. l \/ n = l + 1
            BY <1>1
        <3> QED
            BY <1>1, <3>1
    <2> HIDE DEF t, l
    <2> QED
        BY <1>1, <1>2, <2>1
<1>5. q = r \o out
    <2>1. \A n \in 1 .. l : q[n] = r[n]
        BY <1>1
    <2>2. q[l + 1] = Mapped(i)
        BY <1>1
    <2> HIDE DEF q, r, l
    <2>3. Len(q) = Len(r) + 1 /\ (\A n \in 1 .. Len(r) : q[n] = r[n]) /\ q[Len(r) + 1] = Mapped(i)
        BY <1>3, <1>4, <2>1, <2>2
    <2>4. Mapped(i) \in PipeItem /\ r \in Seq(PipeItem) /\ q \in Seq(PipeItem)
        BY <1>2, <1>3, <1>4
    <2>5. q = r \o <<q[Len(r) + 1]>>
        BY <2>3, <2>4, GrowsByOne
    <2>6. <<q[Len(r) + 1]>> = out
        BY <2>3
    <2> HIDE DEF out
    <2> QED
        BY <2>5, <2>6
<1>6. Result("map", s, FALSE) = r /\ Result("map", t, FALSE) = q
    <2>1. Result("map", s, FALSE) = [n \in DOMAIN s |-> Mapped(s[n])]
        BY ResultIs
    <2>2. Result("map", t, FALSE) = [n \in DOMAIN t |-> Mapped(t[n])]
        BY ResultIs
    <2> HIDE DEF t
    <2> QED
        BY <1>1, <2>1, <2>2
<1>7. Made("map", mem, i) = Yielding(out, mem)
    BY MadeIs DEF Map
<1>8. out \in Seq(PipeItem) /\ mem \in Seq(PipeItem)
    <2>1. Mapped(i) \in PipeItem
        BY <1>2
    <2> QED
        BY <2>1 DEF Remembers
<1>9. Remembers("map", t, mem)
    BY DEF Remembers
<1>10. ~Over("map", t, FALSE)
    BY OverIs DEF StageName
<1>11. Continues("map", s, i, out, mem)
    BY <1>5, <1>6, <1>9, <1>10 DEF Continues
<1> HIDE DEF out
<1> QED
    BY <1>7, <1>8, <1>11 DEF Consumes

\* The numbers of an item, each an item of its own.
Ones(item0) == [n \in DOMAIN item0 |-> <<item0[n]>>]

LEMMA OnesOfConcat ==
    ASSUME NEW a \in Seq(Nat), NEW b \in Seq(Nat)
    PROVE  Ones(a \o b) = Ones(a) \o Ones(b) /\ Ones(a) \in Seq(PipeItem)
<1>1. /\ a \o b \in Seq(Nat) /\ Len(a \o b) = Len(a) + Len(b) /\ Len(a) \in Nat /\ Len(b) \in Nat
      /\ \A n \in 1 .. Len(a) + Len(b) : (a \o b)[n] = IF n <= Len(a) THEN a[n] ELSE b[n - Len(a)]
    BY ConcatProperties, LenProperties
<1>2. ASSUME NEW c \in Seq(Nat)
      PROVE  /\ Ones(c) \in Seq(PipeItem) /\ Len(Ones(c)) = Len(c) /\ Len(c) \in Nat
             /\ \A n \in 1 .. Len(c) : Ones(c)[n] = <<c[n]>>
    <2>1. DOMAIN c = 1 .. Len(c) /\ Len(c) \in Nat /\ \A n \in 1 .. Len(c) : c[n] \in Nat
        BY ElementOfSeq, LenProperties
    <2>2. \A n \in 1 .. Len(c) : <<c[n]>> \in PipeItem
        BY <2>1 DEF PipeItem
    <2> DEFINE o == [n \in 1 .. Len(c) |-> <<c[n]>>]
    <2>3. Ones(c) = o
        BY <2>1 DEF Ones
    <2>4. o \in Seq(PipeItem) /\ Len(o) = Len(c)
        <3> HIDE DEF PipeItem
        <3>1. o \in [1 .. Len(c) -> PipeItem]
            BY <2>2
        <3>2. Len(c) \in Nat
            BY <2>1
        <3> HIDE DEF o
        <3> QED
            BY <3>1, <3>2, IsSequence
    <2> QED
        BY <2>1, <2>3, <2>4
<1> DEFINE ab == a \o b
           u == Ones(a)
           v == Ones(b)
           w == Ones(ab)
           uv == u \o v
<1>3. /\ u \in Seq(PipeItem) /\ Len(u) = Len(a) /\ \A n \in 1 .. Len(a) : u[n] = <<a[n]>>
    BY <1>2
<1>4. /\ v \in Seq(PipeItem) /\ Len(v) = Len(b) /\ \A n \in 1 .. Len(b) : v[n] = <<b[n]>>
    BY <1>2
<1>5. /\ w \in Seq(PipeItem) /\ Len(w) = Len(a) + Len(b)
      /\ \A n \in 1 .. Len(a) + Len(b) : w[n] = <<ab[n]>>
    BY <1>1, <1>2
<1> HIDE DEF u, v, w
<1>6. /\ uv \in Seq(PipeItem) /\ Len(uv) = Len(a) + Len(b)
      /\ \A n \in 1 .. Len(a) + Len(b) : uv[n] = IF n <= Len(a) THEN u[n] ELSE v[n - Len(a)]
    <2>0. u \in Seq(PipeItem) /\ v \in Seq(PipeItem)
        BY <1>3, <1>4
    <2>1. /\ uv \in Seq(PipeItem) /\ Len(uv) = Len(u) + Len(v)
          /\ \A n \in 1 .. Len(u) + Len(v) : uv[n] = IF n <= Len(u) THEN u[n] ELSE v[n - Len(u)]
        BY <2>0, ConcatProperties
    <2> HIDE DEF uv
    <2>2. Len(u) = Len(a) /\ Len(v) = Len(b)
        BY <1>3, <1>4
    <2> QED
        BY <2>1, <2>2
<1> HIDE DEF uv, ab
<1>7. ASSUME NEW n \in 1 .. Len(a) + Len(b) PROVE w[n] = uv[n]
    <2>1. CASE n <= Len(a)
        <3>1. n \in 1 .. Len(a)
            BY <1>1, <2>1
        <3>2. ab[n] = a[n]
            BY <1>1, <2>1 DEF ab
        <3>3. w[n] = <<ab[n]>> /\ uv[n] = u[n] /\ u[n] = <<a[n]>>
            BY <1>3, <1>5, <1>6, <2>1, <3>1
        <3> QED
            BY <3>2, <3>3
    <2>2. CASE ~ (n <= Len(a))
        <3>1. n - Len(a) \in 1 .. Len(b)
            BY <1>1, <2>2
        <3>2. ab[n] = b[n - Len(a)]
            BY <1>1, <2>2 DEF ab
        <3>3. w[n] = <<ab[n]>> /\ uv[n] = v[n - Len(a)] /\ v[n - Len(a)] = <<b[n - Len(a)]>>
            BY <1>4, <1>5, <1>6, <2>2, <3>1
        <3> QED
            BY <3>2, <3>3
    <2> QED
        BY <2>1, <2>2
<1>8. w = uv
    BY <1>5, <1>6, <1>7, SeqEqual
<1> QED
    BY <1>3, <1>8 DEF u, v, w, uv, ab

LEMMA FlatMapConsumes ==
    ASSUME NEW s \in Seq(PipeItem), NEW i \in PipeItem, NEW mem, Remembers("flatMap", s, mem)
    PROVE  Consumes("flatMap", s, i, mem)
<1> DEFINE t == Append(s, i)
           out == Ones(i)
<1>1. FlattenSeq(t) = FlattenSeq(s) \o i /\ FlattenSeq(s) \in Seq(Nat) /\ i \in Seq(Nat)
    BY FlattenAppend, FlattenType DEF PipeItem
<1>2. Result("flatMap", s, FALSE) = Ones(FlattenSeq(s)) /\ Result("flatMap", t, FALSE) = Ones(FlattenSeq(t))
    BY ResultIs DEF Ones
<1>3. Result("flatMap", t, FALSE) = Result("flatMap", s, FALSE) \o out
    BY <1>1, <1>2, OnesOfConcat
<1>4. Made("flatMap", mem, i) = Yielding(out, mem)
    BY MadeIs DEF FlatMap, Ones
<1>5. out \in Seq(PipeItem) /\ mem \in Seq(PipeItem)
    BY <1>1, OnesOfConcat DEF Remembers
<1>6. Remembers("flatMap", t, mem)
    BY DEF Remembers
<1>7. ~Over("flatMap", t, FALSE)
    BY OverIs DEF StageName
<1>8. Continues("flatMap", s, i, out, mem)
    BY <1>3, <1>6, <1>7 DEF Continues
<1> HIDE DEF out
<1> QED
    BY <1>4, <1>5, <1>8 DEF Consumes

LEMMA TakeConsumes ==
    ASSUME NEW s \in Seq(PipeItem), NEW i \in PipeItem, NEW mem, Remembers("take", s, mem),
           ~Over("take", s, FALSE)
    PROVE  Consumes("take", s, i, mem)
<1> DEFINE t == Append(s, i)
           l == Len(s)
<1>1. /\ l \in Nat /\ Len(t) = l + 1 /\ t \in Seq(PipeItem) /\ t = s \o <<i>> /\ <<i>> \in Seq(PipeItem)
    BY MoreIs
<1>2. N \in Nat /\ l <= N /\ Len(mem) = l /\ mem \in Seq(PipeItem)
    BY <1>1, StreamAssumption DEF Over, Remembers
<1>3. Made("take", mem, i) = IF l >= N THEN Returning ELSE Yielding(<<i>>, Append(mem, i))
    <2>1. Made("take", mem, i) = Take(mem, i)
        BY MadeIs
    <2> HIDE DEF l
    <2>2. CASE l >= N
        BY <1>2, <2>1, <2>2 DEF Take
    <2>3. CASE ~ (l >= N)
        BY <1>1, <1>2, <2>1, <2>3 DEF Take, Counted
    <2> QED
        BY <2>2, <2>3
<1>4. Result("take", s, FALSE) = s
    <2>1. Result("take", s, FALSE) = SubSeq(s, 1, l)
        <3>1. l = IF l < N THEN l ELSE N
            BY <1>1, <1>2
        <3> QED
            BY <3>1, ResultIs
    <2> QED
        BY <2>1, SubSeqFull
<1>5. CASE l >= N
    <2>1. l = N
        BY <1>1, <1>2, <1>5
    <2>2. Result("take", t, FALSE) = SubSeq(t, 1, l)
        <3>1. l = IF Len(t) < N THEN Len(t) ELSE N
            BY <1>1, <2>1
        <3> QED
            BY <3>1, ResultIs
    <2>3. SubSeq(t, 1, l) = SubSeq(s, 1, l)
        <3>1. l \in 0 .. l
            BY <1>1
        <3> QED
            BY <3>1, SubSeqOfMore
    <2>4. SubSeq(s, 1, l) = s
        BY SubSeqFull
    <2>5. Over("take", t, FALSE)
        BY <1>1, <1>2, <2>1 DEF Over
    <2>6. Ends("take", s, i)
        BY <1>4, <2>2, <2>3, <2>4, <2>5 DEF Ends
    <2> QED
        BY <1>3, <1>5, <2>6 DEF Consumes
<1>6. CASE ~ (l >= N)
    <2> DEFINE out == <<i>>
               m == Append(mem, i)
    <2>1. l + 1 <= N
        BY <1>1, <1>2, <1>6
    <2>2. Result("take", t, FALSE) = SubSeq(t, 1, Len(t))
        <3>1. Len(t) = IF Len(t) < N THEN Len(t) ELSE N
            BY <1>1, <1>2, <2>1
        <3> QED
            BY <3>1, ResultIs
    <2>3. SubSeq(t, 1, Len(t)) = t
        BY <1>1, SubSeqFull
    <2>4. Len(m) = Len(t) /\ m \in Seq(PipeItem)
        BY <1>1, <1>2, AppendProperties
    <2>5. Remembers("take", t, m)
        <3> HIDE DEF m
        <3> QED
            BY <2>4 DEF Remembers
    <2>6. ~Over("take", t, FALSE)
        BY <1>1, <1>2, <2>1 DEF Over
    <2>7. Continues("take", s, i, out, m)
        BY <1>1, <1>4, <2>2, <2>3, <2>5, <2>6 DEF Continues
    <2>8. Made("take", mem, i) = Yielding(out, m) /\ out \in Seq(PipeItem)
        BY <1>1, <1>3, <1>6
    <2> HIDE DEF out, m
    <2> QED
        BY <2>4, <2>7, <2>8 DEF Consumes
<1> QED
    BY <1>5, <1>6

LEMMA SkipConsumes ==
    ASSUME NEW s \in Seq(PipeItem), NEW i \in PipeItem, NEW mem, Remembers("skip", s, mem)
    PROVE  Consumes("skip", s, i, mem)
<1> DEFINE t == Append(s, i)
           l == Len(s)
           out == IF Len(mem) >= N THEN <<i>> ELSE <<>>
           m == Counted(mem, i)
<1>1. l \in Nat /\ Len(t) = l + 1 /\ <<i>> \in Seq(PipeItem)
    BY MoreIs
<1>2. N \in Nat /\ mem \in Seq(PipeItem) /\ Len(mem) = IF l < N THEN l ELSE N
    BY StreamAssumption DEF Remembers
<1>3. m \in Seq(PipeItem) /\ Len(m) = IF l + 1 < N THEN l + 1 ELSE N
    <2> HIDE DEF l
    <2>1. CASE Len(mem) < N
        <3>1. m = Append(mem, i)
            BY <2>1 DEF Counted
        <3>2. m \in Seq(PipeItem) /\ Len(m) = Len(mem) + 1
            BY <1>2, <3>1, AppendProperties
        <3> HIDE DEF m
        <3> QED
            BY <1>1, <1>2, <2>1, <3>2
    <2>2. CASE ~ (Len(mem) < N)
        <3>1. m = mem
            BY <2>2 DEF Counted
        <3> HIDE DEF m
        <3> QED
            BY <1>1, <1>2, <2>2, <3>1
    <2> QED
        BY <2>1, <2>2
<1>4. Result("skip", s, FALSE) = SubSeq(s, N + 1, l) /\ Result("skip", t, FALSE) = SubSeq(t, N + 1, l + 1)
    BY <1>1, ResultIs
<1>5. Result("skip", t, FALSE) = Result("skip", s, FALSE) \o out
    <2> HIDE DEF m
    <2>1. CASE l < N
        <3>1. SubSeq(s, N + 1, l) = <<>> /\ SubSeq(t, N + 1, l + 1) = <<>>
            <4> HIDE DEF t, l
            <4>1. N + 1 \in Int /\ l \in Int /\ l + 1 \in Int /\ l < N + 1 /\ l + 1 < N + 1
                BY <1>1, <1>2, <2>1
            <4> QED
                BY <4>1, SubSeqEmpty
        <3>2. out = <<>>
            BY <1>1, <1>2, <2>1
        <3>3. <<>> \o <<>> = <<>>
            OBVIOUS
        <3> HIDE DEF out
        <3> QED
            BY <1>4, <3>1, <3>2, <3>3
    <2>2. CASE ~ (l < N)
        <3>1. N + 1 \in Nat /\ N + 1 > 0 /\ N + 1 <= l + 1
            BY <1>1, <1>2, <2>2
        <3>2. SubSeq(t, N + 1, l + 1) = SubSeq(s, N + 1, l) \o <<i>>
            BY <3>1, SubSeqOfMore
        <3>3. out = <<i>>
            BY <1>1, <1>2, <2>2
        <3> HIDE DEF out
        <3> QED
            BY <1>4, <3>2, <3>3
    <2> QED
        BY <2>1, <2>2
<1>6. Made("skip", mem, i) = Yielding(out, m)
    BY MadeIs DEF Skip
<1>7. out \in Seq(PipeItem)
    BY <1>1
<1>8. Remembers("skip", t, m)
    <2> HIDE DEF m, t
    <2> QED
        BY <1>1, <1>3 DEF Remembers
<1>9. ~Over("skip", t, FALSE)
    BY OverIs DEF StageName
<1>10. Continues("skip", s, i, out, m)
    BY <1>5, <1>8, <1>9 DEF Continues
<1> HIDE DEF out, m
<1> QED
    BY <1>3, <1>6, <1>7, <1>10 DEF Consumes

LEMMA RangeOfMore ==
    ASSUME NEW A, NEW s \in Seq(A), NEW i \in A
    PROVE  Range(Append(s, i)) = Range(s) \cup {i} /\ Range(s) = {s[n] : n \in 1 .. Len(s)}
<1> DEFINE t == Append(s, i)
<1>1. /\ Len(s) \in Nat /\ DOMAIN s = 1 .. Len(s) /\ DOMAIN t = 1 .. Len(s) + 1
      /\ \A n \in 1 .. Len(s) : t[n] = s[n]
      /\ t[Len(s) + 1] = i
    BY MoreIs
<1>2. Range(s) = {s[n] : n \in 1 .. Len(s)} /\ Range(t) = {t[n] : n \in 1 .. Len(s) + 1}
    <2> HIDE DEF t
    <2> QED
        BY <1>1 DEF Range
<1> HIDE DEF t
<1>3. \A n : n \in 1 .. Len(s) + 1 <=> n \in 1 .. Len(s) \/ n = Len(s) + 1
    BY <1>1
<1>4. {t[n] : n \in 1 .. Len(s) + 1} = {s[n] : n \in 1 .. Len(s)} \cup {i}
    BY <1>1, <1>3
<1> QED
    BY <1>2, <1>4 DEF t

LEMMA UniqueConsumes ==
    ASSUME NEW s \in Seq(PipeItem), NEW i \in PipeItem, NEW mem, Remembers("unique", s, mem)
    PROVE  Consumes("unique", s, i, mem)
<1> DEFINE t == Append(s, i)
           l == Len(s)
           P == {n \in 1 .. l : \A m \in 1 .. n - 1 : s[m] # s[n]}
           Q == {n \in 1 .. l + 1 : \A m \in 1 .. n - 1 : t[m] # t[n]}
           seen == i \in Range(mem)
           out == IF seen THEN <<>> ELSE <<i>>
           memory1 == IF seen THEN mem ELSE Append(mem, i)
<1>1. /\ l \in Nat /\ DOMAIN s = 1 .. l /\ DOMAIN t = 1 .. l + 1
      /\ \A n \in 1 .. l : t[n] = s[n]
      /\ t[l + 1] = i /\ <<i>> \in Seq(PipeItem)
    BY MoreIs
<1>2. mem \in Seq(PipeItem) /\ Range(mem) = Range(s)
    BY DEF Remembers
<1>3. seen <=> \E m \in 1 .. l : s[m] = i
    <2>1. Range(s) = {s[n] : n \in 1 .. l}
        BY RangeOfMore
    <2> QED
        BY <1>2, <2>1
<1>4. Q = P \cup (IF seen THEN {} ELSE {l + 1})
    <2> HIDE DEF t, l, seen
    <2>1. \A n : n \in 1 .. l + 1 <=> n \in 1 .. l \/ n = l + 1
        BY <1>1
    <2>2. ASSUME NEW n \in 1 .. l PROVE n \in Q <=> n \in P
        <3>1. \A m \in 1 .. n - 1 : t[m] = s[m]
            BY <1>1
        <3>2. t[n] = s[n] /\ n \in 1 .. l + 1
            BY <1>1
        <3> QED
            BY <3>1, <3>2
    <2>3. l + 1 \in Q <=> ~seen
        <3>1. (l + 1) - 1 = l /\ l + 1 \in 1 .. l + 1
            BY <1>1
        <3>2. \A m \in 1 .. l : t[m] = s[m]
            BY <1>1
        <3> QED
            BY <1>1, <1>3, <3>1, <3>2
    <2>4. \A n \in Q : n \in 1 .. l \/ n = l + 1
        BY <2>1
    <2>5. \A n \in P : n \in 1 .. l /\ n # l + 1
        BY <1>1
    <2> HIDE DEF P, Q
    <2> QED
        BY <2>2, <2>3, <2>4, <2>5
<1>5. P \in SUBSET (1 .. Len(s))
    OBVIOUS
<1>6. /\ Kept(t, P) = Kept(s, P) /\ Kept(t, P \cup {l + 1}) = Append(Kept(s, P), i)
      /\ Kept(s, P) \in Seq(PipeItem)
    <2> HIDE DEF P
    <2>1. /\ Kept(Append(s, i), P) = Kept(s, P)
          /\ Kept(Append(s, i), P \cup {Len(s) + 1}) = Append(Kept(s, P), i)
        BY <1>5, KeptOfMore
    <2>2. Kept(s, P) \in Seq(PipeItem)
        BY <1>5, KeptType
    <2> QED
        BY <2>1, <2>2
<1>7. Result("unique", s, FALSE) = Kept(s, P) /\ Result("unique", t, FALSE) = Kept(t, Q)
    <2>1. Result("unique", s, FALSE) = Kept(s, {n \in DOMAIN s : \A m \in 1 .. n - 1 : s[m] # s[n]})
        BY ResultIs
    <2>2. Result("unique", t, FALSE) = Kept(t, {n \in DOMAIN t : \A m \in 1 .. n - 1 : t[m] # t[n]})
        BY ResultIs
    <2> QED
        BY <1>1, <2>1, <2>2
<1>8. Result("unique", t, FALSE) = Result("unique", s, FALSE) \o out
    <2> HIDE DEF t, l, P, Q, seen
    <2>1. CASE seen
        BY <1>4, <1>6, <1>7, <2>1, ConcatEmptySeq
    <2>2. CASE ~seen
        BY <1>4, <1>6, <1>7, <2>2, AppendIsConcat
    <2> QED
        BY <2>1, <2>2
<1>9. Made("unique", mem, i) = Yielding(out, memory1)
    BY MadeIs DEF Unique
<1>10. out \in Seq(PipeItem) /\ memory1 \in Seq(PipeItem)
    BY <1>1, <1>2, AppendProperties
<1>11. Range(memory1) = Range(t)
    <2>1. Range(t) = Range(s) \cup {i} /\ Range(Append(mem, i)) = Range(mem) \cup {i}
        BY <1>2, RangeOfMore
    <2> QED
        BY <1>2, <2>1
<1> HIDE DEF out, memory1
<1>12. Remembers("unique", t, memory1)
    BY <1>10, <1>11 DEF Remembers
<1>13. ~Over("unique", t, FALSE)
    BY OverIs DEF StageName
<1>14. Continues("unique", s, i, out, memory1)
    BY <1>8, <1>12, <1>13 DEF Continues
<1> QED
    BY <1>9, <1>10, <1>14 DEF Consumes

LEMMA ScanConsumes ==
    ASSUME NEW s \in Seq(PipeItem), NEW i \in PipeItem, NEW mem, Remembers("scan", s, mem)
    PROVE  Consumes("scan", s, i, mem)
<1> DEFINE t == Append(s, i)
           l == Len(s)
           r == [n \in 1 .. l |-> FlattenSeq(SubSeq(s, 1, n))]
           q == [n \in 1 .. l + 1 |-> FlattenSeq(SubSeq(t, 1, n))]
           last == FlattenSeq(mem) \o i
           out == <<last>>
<1>1. /\ l \in Nat /\ DOMAIN s = 1 .. l /\ DOMAIN t = 1 .. l + 1 /\ t \in Seq(PipeItem) /\ Len(t) = l + 1
    BY MoreIs
<1>2. mem = s
    BY DEF Remembers
<1>3. \A n \in 0 .. l : SubSeq(t, 1, n) = SubSeq(s, 1, n) /\ SubSeq(s, 1, n) \in Seq(PipeItem)
    BY SubSeqOfMore
<1>4. SubSeq(t, 1, l + 1) = t
    <2>1. SubSeq(t, 1, Len(t)) = t
        BY <1>1, SubSeqFull
    <2> QED
        BY <1>1, <2>1
<1>5. FlattenSeq(t) = last /\ last \in PipeItem
    BY <1>1, <1>2, FlattenAppend, FlattenType
<1> HIDE DEF last
<1>6. r \in Seq(PipeItem) /\ Len(r) = l
    <2>1. \A n \in 1 .. l : FlattenSeq(SubSeq(s, 1, n)) \in PipeItem
        <3> TAKE n \in 1 .. l
        <3>1. SubSeq(s, 1, n) \in Seq(PipeItem)
            BY <1>1, <1>3
        <3> QED
            BY <3>1, FlattenType
    <2>2. r \in [1 .. l -> PipeItem]
        BY <2>1
    <2> HIDE DEF r, l
    <2> QED
        BY <1>1, <2>2, IsSequence
<1>7. \A n \in 1 .. l : q[n] = r[n]
    <2> TAKE n \in 1 .. l
    <2>1. SubSeq(t, 1, n) = SubSeq(s, 1, n) /\ n \in 1 .. l + 1
        BY <1>1, <1>3
    <2> HIDE DEF t
    <2> QED
        BY <2>1
<1>8. q[l + 1] = last
    <2>1. l + 1 \in 1 .. l + 1
        BY <1>1
    <2>2. q[l + 1] = FlattenSeq(SubSeq(t, 1, l + 1))
        BY <2>1
    <2> HIDE DEF q, t, l
    <2> QED
        BY <1>4, <1>5, <2>2
<1>9. q \in Seq(PipeItem) /\ Len(q) = l + 1
    <2>1. \A n \in 1 .. l + 1 : q[n] \in PipeItem
        <3> TAKE n \in 1 .. l + 1
        <3>1. n \in 1 .. l \/ n = l + 1
            BY <1>1
        <3>2. \A k \in 1 .. l : r[k] \in PipeItem
            <4> HIDE DEF r, l
            <4> QED
                BY <1>6, ElementOfSeq
        <3> HIDE DEF q, r, l
        <3> QED
            BY <1>5, <1>7, <1>8, <3>1, <3>2
    <2>2. q \in [1 .. l + 1 -> PipeItem]
        BY <2>1
    <2>3. l + 1 \in Nat
        BY <1>1
    <2> HIDE DEF q, l
    <2> QED
        BY <2>2, <2>3, IsSequence
<1>10. Result("scan", s, FALSE) = r /\ Result("scan", t, FALSE) = q
    <2>1. Result("scan", s, FALSE) = [n \in DOMAIN s |-> FlattenSeq(SubSeq(s, 1, n))]
        BY ResultIs
    <2>2. Result("scan", t, FALSE) = [n \in DOMAIN t |-> FlattenSeq(SubSeq(t, 1, n))]
        BY ResultIs
    <2> HIDE DEF t
    <2> QED
        BY <1>1, <2>1, <2>2
<1>11. q = r \o out
    <2> HIDE DEF q, r, l
    <2>1. Len(q) = Len(r) + 1 /\ (\A n \in 1 .. Len(r) : q[n] = r[n]) /\ q[Len(r) + 1] = last
        BY <1>6, <1>7, <1>8, <1>9
    <2>2. q = r \o <<q[Len(r) + 1]>>
        BY <1>6, <1>9, <2>1, GrowsByOne
    <2> QED
        BY <2>1, <2>2
<1>12. Made("scan", mem, i) = Yielding(out, t)
    BY <1>2, MadeIs DEF Scan, last
<1>13. out \in Seq(PipeItem)
    BY <1>5
<1>14. Remembers("scan", t, t)
    <2> HIDE DEF t
    <2> QED
        BY <1>1 DEF Remembers
<1>15. ~Over("scan", t, FALSE)
    BY OverIs DEF StageName
<1>16. Continues("scan", s, i, out, t)
    BY <1>10, <1>11, <1>14, <1>15 DEF Continues
<1> HIDE DEF out, t
<1> QED
    BY <1>1, <1>12, <1>13, <1>16 DEF Consumes

\* How many of the first items hold.
IsLeading(s, k) ==
    /\ k \in 0 .. Len(s)
    /\ \A n \in 1 .. k : Holds(s[n])
    /\ k < Len(s) => ~Holds(s[k + 1])

LEMMA LeadingIs ==
    ASSUME NEW A, NEW s \in Seq(A)
    PROVE  IsLeading(s, Leading(s))
<1> DEFINE refusing == {n \in 1 .. Len(s) : ~Holds(s[n])}
           first == CHOOSE n \in refusing : \A m \in refusing : n <= m
<1>1. Len(s) \in Nat /\ DOMAIN s = 1 .. Len(s)
    BY LenProperties
<1>2. Leading(s) = IF refusing = {} THEN Len(s) ELSE first - 1
    BY <1>1 DEF Leading
<1>3. CASE refusing = {}
    <2>1. Leading(s) = Len(s)
        BY <1>2, <1>3
    <2> QED
        BY <1>1, <1>3, <2>1 DEF IsLeading
<1>4. CASE refusing # {}
    <2>1. refusing \in SUBSET (1 .. Len(s))
        OBVIOUS
    <2> DEFINE IsFirst(n) == n \in refusing /\ \A m \in refusing : n <= m
    <2>2. \E n : IsFirst(n)
        <3> HIDE DEF refusing
        <3>1. \E n \in refusing : \A m \in refusing : n <= m
            BY <1>1, <1>4, <2>1, LeastAndGreatest
        <3> QED
            BY <3>1
    <2>3. first \in refusing /\ \A m \in refusing : first <= m
        <3> HIDE DEF refusing
        <3> QED
            BY <2>2
    <2> HIDE DEF first
    <2>4. first \in 1 .. Len(s) /\ ~Holds(s[first])
        BY <2>3
    <2>5. Leading(s) = first - 1
        BY <1>2, <1>4
    <2>6. \A n \in 1 .. first - 1 : Holds(s[n])
        <3> TAKE n \in 1 .. first - 1
        <3>1. n \in 1 .. Len(s) /\ ~ (first <= n)
            BY <1>1, <2>4
        <3> QED
            BY <2>3, <3>1
    <2>7. first - 1 \in 0 .. Len(s) /\ (first - 1) + 1 = first
        BY <1>1, <2>4
    <2> HIDE DEF refusing
    <2> QED
        BY <2>4, <2>5, <2>6, <2>7 DEF IsLeading
<1> QED
    BY <1>3, <1>4

LEMMA LeadingIsOne ==
    ASSUME NEW s, NEW k, NEW j, IsLeading(s, k), IsLeading(s, j), Len(s) \in Nat
    PROVE  k = j
<1>1. k \in 0 .. Len(s) /\ j \in 0 .. Len(s)
    BY DEF IsLeading
<1>2. ~ (k < j)
    <2> SUFFICES ASSUME k < j PROVE FALSE
        OBVIOUS
    <2>1. k + 1 \in 1 .. j /\ k < Len(s)
        BY <1>1
    <2> QED
        BY <2>1 DEF IsLeading
<1>3. ~ (j < k)
    <2> SUFFICES ASSUME j < k PROVE FALSE
        OBVIOUS
    <2>1. j + 1 \in 1 .. k /\ j < Len(s)
        BY <1>1
    <2> QED
        BY <2>1 DEF IsLeading
<1> QED
    BY <1>1, <1>2, <1>3

\* Once an item has failed, those after it make no difference.
LEMMA LeadingOfMore ==
    ASSUME NEW A, NEW s \in Seq(A), NEW i \in A
    PROVE  /\ Leading(s) < Len(s) => Leading(Append(s, i)) = Leading(s)
           /\ Leading(s) = Len(s) /\ Holds(i) => Leading(Append(s, i)) = Len(s) + 1
           /\ Leading(s) = Len(s) /\ ~Holds(i) => Leading(Append(s, i)) = Len(s)
           /\ Leading(s) \in 0 .. Len(s)
<1> DEFINE t == Append(s, i)
           l == Len(s)
           k == Leading(s)
<1>1. /\ t \in Seq(A) /\ Len(t) = l + 1 /\ l \in Nat /\ Len(t) \in Nat
      /\ \A n \in 1 .. l : t[n] = s[n]
      /\ t[l + 1] = i
    BY MoreIs
<1>2. /\ k \in 0 .. l /\ (\A n \in 1 .. k : Holds(s[n])) /\ (k < l => ~Holds(s[k + 1]))
    BY LeadingIs DEF IsLeading
<1>3. IsLeading(t, Leading(t))
    BY <1>1, LeadingIs
<1> HIDE DEF t, l, k
<1>4. CASE k < l
    <2>1. \A n \in 1 .. k : Holds(t[n])
        BY <1>1, <1>2
    <2>2. k + 1 \in 1 .. l /\ k \in 0 .. Len(t)
        BY <1>1, <1>2, <1>4
    <2>3. ~Holds(t[k + 1])
        BY <1>1, <1>2, <1>4, <2>2
    <2>4. IsLeading(t, k)
        BY <2>1, <2>2, <2>3 DEF IsLeading
    <2>5. Leading(t) = k
        BY <1>1, <1>3, <2>4, LeadingIsOne
    <2> QED
        BY <1>2, <1>4, <2>5 DEF t, l, k
<1>5. CASE k = l /\ Holds(i)
    <2>1. \A n \in 1 .. l + 1 : Holds(t[n])
        <3> TAKE n \in 1 .. l + 1
        <3>1. n \in 1 .. k \/ n = l + 1
            BY <1>1, <1>5
        <3> QED
            BY <1>1, <1>2, <1>5, <3>1
    <2>2. l + 1 \in 0 .. Len(t) /\ ~ (l + 1 < Len(t))
        BY <1>1
    <2>3. IsLeading(t, l + 1)
        BY <2>1, <2>2 DEF IsLeading
    <2>4. Leading(t) = l + 1
        BY <1>1, <1>3, <2>3, LeadingIsOne
    <2> QED
        BY <1>1, <1>2, <1>5, <2>4 DEF t, l, k
<1>6. CASE k = l /\ ~Holds(i)
    <2>1. \A n \in 1 .. l : Holds(t[n])
        BY <1>1, <1>2, <1>6
    <2>2. l \in 0 .. Len(t) /\ ~Holds(t[l + 1])
        BY <1>1, <1>6
    <2>3. IsLeading(t, l)
        BY <2>1, <2>2 DEF IsLeading
    <2>4. Leading(t) = l
        BY <1>1, <1>3, <2>3, LeadingIsOne
    <2> QED
        BY <1>1, <1>2, <1>6, <2>4 DEF t, l, k
<1>7. k < l \/ k = l
    BY <1>1, <1>2
<1> QED
    BY <1>4, <1>5, <1>6, <1>7

LEMMA TakeWhileConsumes ==
    ASSUME NEW s \in Seq(PipeItem), NEW i \in PipeItem, NEW mem, Remembers("takeWhile", s, mem),
           ~Over("takeWhile", s, FALSE)
    PROVE  Consumes("takeWhile", s, i, mem)
<1> DEFINE t == Append(s, i)
           l == Len(s)
           out == <<i>>
<1>1. /\ l \in Nat /\ Len(t) = l + 1 /\ t \in Seq(PipeItem) /\ t = s \o out /\ out \in Seq(PipeItem)
    BY MoreIs
<1>2. Leading(s) = l
    <2>1. ~ (Leading(s) < l)
        BY DEF Over
    <2>2. Leading(s) \in 0 .. l
        BY LeadingOfMore
    <2> QED
        BY <1>1, <2>1, <2>2
<1>3. Result("takeWhile", s, FALSE) = s
    <2>1. Result("takeWhile", s, FALSE) = SubSeq(s, 1, l)
        BY <1>2, ResultIs
    <2> QED
        BY <2>1, SubSeqFull
<1>4. Made("takeWhile", mem, i) = IF Holds(i) THEN Yielding(out, mem) ELSE Returning
    BY MadeIs DEF TakeWhile
<1>5. CASE Holds(i)
    <2>1. Leading(t) = l + 1
        BY <1>2, <1>5, LeadingOfMore
    <2>2. Result("takeWhile", t, FALSE) = SubSeq(t, 1, Len(t))
        BY <1>1, <2>1, ResultIs
    <2>3. SubSeq(t, 1, Len(t)) = t
        BY <1>1, SubSeqFull
    <2>4. ~Over("takeWhile", t, FALSE)
        BY <1>1, <2>1 DEF Over
    <2>5. Remembers("takeWhile", t, mem)
        BY DEF Remembers
    <2> HIDE DEF t, out
    <2>6. Continues("takeWhile", s, i, out, mem)
        BY <1>1, <1>3, <2>2, <2>3, <2>4, <2>5 DEF Continues, t
    <2>7. Made("takeWhile", mem, i) = Yielding(out, mem) /\ mem \in Seq(PipeItem)
        BY <1>4, <1>5 DEF Remembers
    <2> QED
        BY <1>1, <2>6, <2>7 DEF Consumes
<1>6. CASE ~Holds(i)
    <2>1. Leading(t) = l
        BY <1>2, <1>6, LeadingOfMore
    <2>2. Result("takeWhile", t, FALSE) = SubSeq(t, 1, l)
        BY <2>1, ResultIs
    <2>3. SubSeq(t, 1, l) = SubSeq(s, 1, l)
        <3>1. l \in 0 .. l
            BY <1>1
        <3> QED
            BY <3>1, SubSeqOfMore
    <2>4. SubSeq(s, 1, l) = s
        BY SubSeqFull
    <2>5. Over("takeWhile", t, FALSE)
        BY <1>1, <2>1 DEF Over
    <2>6. Ends("takeWhile", s, i)
        BY <1>3, <2>2, <2>3, <2>4, <2>5 DEF Ends
    <2> QED
        BY <1>4, <1>6, <2>6 DEF Consumes
<1> QED
    BY <1>5, <1>6

LEMMA SkipWhileConsumes ==
    ASSUME NEW s \in Seq(PipeItem), NEW i \in PipeItem, NEW mem, Remembers("skipWhile", s, mem)
    PROVE  Consumes("skipWhile", s, i, mem)
<1> DEFINE t == Append(s, i)
           l == Len(s)
           k == Leading(s)
           one == <<i>>
<1>1. /\ l \in Nat /\ Len(t) = l + 1 /\ one \in Seq(PipeItem) /\ one # <<>>
    BY MoreIs
<1>2. /\ mem \in Seq(PipeItem) /\ (mem = <<>> => k = l) /\ (mem # <<>> => k < l)
    BY DEF Remembers
<1>3. k \in 0 .. l
    BY LeadingOfMore
<1>4. /\ Result("skipWhile", s, FALSE) = SubSeq(s, k + 1, l)
      /\ Result("skipWhile", t, FALSE) = SubSeq(t, Leading(t) + 1, l + 1)
    BY <1>1, ResultIs
<1>5. Made("skipWhile", mem, i) =
          IF mem = <<>> /\ Holds(i) THEN Yielding(<<>>, mem) ELSE Yielding(one, one)
    BY MadeIs DEF SkipWhile
<1>6. ~Over("skipWhile", t, FALSE)
    BY OverIs DEF StageName
<1>7. CASE mem = <<>> /\ Holds(i)
    <2> DEFINE none == <<>>
    <2>1. Leading(t) = l + 1 /\ k = l
        BY <1>2, <1>7, LeadingOfMore
    <2>2. SubSeq(s, k + 1, l) = none /\ SubSeq(t, Leading(t) + 1, l + 1) = none
        <3> HIDE DEF t, l, k
        <3>1. /\ k + 1 \in Int /\ l \in Int /\ l < k + 1
              /\ Leading(t) + 1 \in Int /\ l + 1 \in Int /\ l + 1 < Leading(t) + 1
            BY <1>1, <2>1
        <3> QED
            BY <3>1, SubSeqEmpty
    <2>3. none \o none = none /\ none \in Seq(PipeItem)
        OBVIOUS
    <2>4. Remembers("skipWhile", t, mem)
        <3> HIDE DEF t, l, k
        <3> QED
            BY <1>1, <1>2, <1>7, <2>1 DEF Remembers
    <2> HIDE DEF none
    <2>5. Continues("skipWhile", s, i, none, mem)
        BY <1>4, <1>6, <2>2, <2>3, <2>4 DEF Continues
    <2>6. Made("skipWhile", mem, i) = Yielding(none, mem)
        BY <1>5, <1>7 DEF none
    <2> QED
        BY <1>2, <2>3, <2>5, <2>6 DEF Consumes
<1>8. CASE ~ (mem = <<>> /\ Holds(i))
    <2>1. Leading(t) = k
        BY <1>2, <1>8, LeadingOfMore
    <2>2. SubSeq(t, k + 1, l + 1) = SubSeq(s, k + 1, l) \o one
        <3>1. k + 1 \in Nat /\ k + 1 > 0 /\ k + 1 <= l + 1
            BY <1>1, <1>3
        <3> DEFINE m == k + 1
        <3> HIDE DEF m, k
        <3>2. m \in Nat /\ m > 0 /\ m <= Len(s) + 1
            BY <3>1 DEF m
        <3>3. SubSeq(t, m, l + 1) = SubSeq(s, m, l) \o one
            BY <3>2, SubSeqOfMore
        <3> QED
            BY <3>3 DEF m
    <2>3. Remembers("skipWhile", t, one)
        <3> HIDE DEF t, l, k, one
        <3> QED
            BY <1>1, <1>3, <2>1 DEF Remembers
    <2> HIDE DEF one, t, k, l
    <2>4. Continues("skipWhile", s, i, one, one)
        BY <1>4, <1>6, <2>1, <2>2, <2>3 DEF Continues, t
    <2> QED
        BY <1>1, <1>5, <1>8, <2>4 DEF Consumes
<1> QED
    BY <1>7, <1>8

\* Where a group ends.
GroupEnd(g) == Size * g

LEMMA SizeIs ==
    Size \in Nat /\ Size > 0 /\ \A n \in Nat : n > 0 => (n >= N <=> n >= Size)
    BY StreamAssumption DEF Size

LEMMA GroupEnds ==
    /\ \A g \in Nat : GroupEnd(g) \in Nat /\ GroupEnd(g + 1) = GroupEnd(g) + Size
    /\ \A g, h \in Nat : g <= h => GroupEnd(g) <= GroupEnd(h)
<1>1. ASSUME NEW g \in Nat PROVE GroupEnd(g) \in Nat /\ GroupEnd(g + 1) = GroupEnd(g) + Size
    <2>1. Size \in Nat
        BY SizeIs
    <2> HIDE DEF Size
    <2> QED
        BY <2>1 DEF GroupEnd
<1>2. ASSUME NEW g \in Nat, NEW h \in Nat, g <= h PROVE GroupEnd(g) <= GroupEnd(h)
    <2> DEFINE n == Size
    <2>1. n \in Nat
        BY SizeIs
    <2> HIDE DEF n
    <2>2. n * g <= n * h
        BY <1>2, <2>1
    <2> QED
        BY <2>2 DEF GroupEnd, n
<1> QED
    BY <1>1, <1>2

\* The number of full groups.
FullGroups(s) == Len(s) \div Size

LEMMA FullGroupsAre ==
    ASSUME NEW A, NEW s \in Seq(A)
    PROVE  /\ FullGroups(s) \in Nat /\ Len(s) \in Nat
           /\ GroupEnd(FullGroups(s)) <= Len(s) /\ Len(s) < GroupEnd(FullGroups(s)) + Size
           /\ \A q \in Nat : GroupEnd(q) <= Len(s) /\ Len(s) < GroupEnd(q) + Size => FullGroups(s) = q
<1> DEFINE n == Size
           a == Len(s)
<1>1. n \in Nat /\ n > 0 /\ a \in Nat
    BY SizeIs, LenProperties
<1> HIDE DEF n, a
<1>2. a \div n \in Nat /\ n * (a \div n) <= a /\ a < n * (a \div n) + n
    BY <1>1
<1>3. ASSUME NEW q \in Nat, n * q <= a, a < n * q + n PROVE a \div n = q
    BY <1>1, <1>3
<1> QED
    BY <1>1, <1>2, <1>3 DEF n, a, GroupEnd, FullGroups

\* The groups that are full.
Batches(s) == [g \in 1 .. FullGroups(s) |-> FlattenSeq(SubSeq(s, GroupEnd(g - 1) + 1, GroupEnd(g)))]

LEMMA BatchesType ==
    ASSUME NEW s \in Seq(PipeItem)
    PROVE  /\ Batches(s) \in Seq(PipeItem) /\ Len(Batches(s)) = FullGroups(s)
           /\ Begun(s) = SubSeq(s, GroupEnd(FullGroups(s)) + 1, Len(s))
           /\ Begun(s) \in Seq(PipeItem)
           /\ Len(Begun(s)) = Len(s) - GroupEnd(FullGroups(s))
<1> DEFINE f == FullGroups(s)
           e == GroupEnd(f)
<1>1. f \in Nat /\ Len(s) \in Nat /\ e <= Len(s) /\ e \in Nat
    BY FullGroupsAre, GroupEnds
<1> HIDE DEF f
<1>2. ASSUME NEW g \in 1 .. f PROVE FlattenSeq(SubSeq(s, GroupEnd(g - 1) + 1, GroupEnd(g))) \in PipeItem
    <2>1. g - 1 \in Nat /\ g \in Nat /\ g <= f
        BY <1>1
    <2>2. GroupEnd(g - 1) \in Nat /\ GroupEnd(g) \in Nat /\ GroupEnd(g) <= e
        BY <1>1, <2>1, GroupEnds
    <2> DEFINE m == GroupEnd(g - 1) + 1
               n == GroupEnd(g)
    <2>3. m \in Nat /\ m > 0 /\ n \in 0 .. Len(s)
        BY <1>1, <2>2
    <2> HIDE DEF m, n
    <2>4. SubSeq(s, m, n) \in Seq(PipeItem)
        <3>1. <<>> \in PipeItem
            BY DEF PipeItem
        <3> QED
            BY <2>3, <3>1, SubSeqOfMore
    <2> QED
        BY <2>4, FlattenType DEF m, n
<1>3. Batches(s) \in Seq(PipeItem) /\ Len(Batches(s)) = f
    <2> DEFINE b == [g \in 1 .. f |-> FlattenSeq(SubSeq(s, GroupEnd(g - 1) + 1, GroupEnd(g)))]
    <2>1. b \in [1 .. f -> PipeItem]
        BY <1>2
    <2>2. Batches(s) = b
        BY DEF Batches, f
    <2> HIDE DEF b
    <2>3. b \in Seq(PipeItem) /\ Len(b) = f
        BY <1>1, <2>1, IsSequence
    <2> QED
        BY <2>2, <2>3
<1>4. Begun(s) = SubSeq(s, e + 1, Len(s))
    BY DEF Begun, e, f, FullGroups, GroupEnd
<1> HIDE DEF e
<1>5. SubSeq(s, e + 1, Len(s)) \in Seq(PipeItem) /\ Len(SubSeq(s, e + 1, Len(s))) = Len(s) - e
    <2> DEFINE m == e + 1
               n == Len(s)
    <2>1. m \in Int /\ n \in Int /\ (IF m <= n THEN n - m + 1 ELSE 0) = n - e
        BY <1>1
    <2>2. \A k \in m .. n : s[k] \in PipeItem
        <3>1. \A k \in m .. n : k \in 1 .. Len(s)
            BY <1>1
        <3> QED
            BY <3>1, ElementOfSeq
    <2> HIDE DEF m, n
    <2>3. SubSeq(s, m, n) \in Seq(PipeItem) /\ Len(SubSeq(s, m, n)) = IF m <= n THEN n - m + 1 ELSE 0
        BY <2>1, <2>2, SubSeqProperties
    <2> QED
        BY <2>1, <2>3 DEF m, n
<1> QED
    BY <1>3, <1>4, <1>5 DEF e, f

LEMMA GroupsAre ==
    ASSUME NEW s \in Seq(PipeItem)
    PROVE  /\ Groups(s, FALSE) = Batches(s)
           /\ Begun(s) = <<>> => Groups(s, TRUE) = Batches(s)
           /\ Begun(s) # <<>> => Groups(s, TRUE) = Batches(s) \o <<FlattenSeq(Begun(s))>>
<1> DEFINE f == FullGroups(s)
           G(k) == [g \in 1 .. k |-> FlattenSeq(SubSeq(s, GroupEnd(g - 1) + 1, IF g <= f THEN GroupEnd(g) ELSE Len(s)))]
<1>1. f \in Nat /\ Len(s) \in Nat /\ GroupEnd(f) <= Len(s) /\ GroupEnd(f) \in Nat
    BY FullGroupsAre, GroupEnds
<1>2. Groups(s, FALSE) = G(f)
    BY DEF Groups, Size, FullGroups, GroupEnd
<1>3. Groups(s, TRUE) = G(IF GroupEnd(f) < Len(s) THEN f + 1 ELSE f)
    BY DEF Groups, Size, FullGroups, GroupEnd
<1>4. G(f) = Batches(s)
    <2>1. \A g \in 1 .. f : g <= f
        BY <1>1
    <2> QED
        BY <2>1 DEF Batches
<1>5. /\ Batches(s) \in Seq(PipeItem) /\ Len(Batches(s)) = f
      /\ Begun(s) = SubSeq(s, GroupEnd(f) + 1, Len(s))
      /\ Begun(s) \in Seq(PipeItem) /\ Len(Begun(s)) = Len(s) - GroupEnd(f)
    BY BatchesType
<1> HIDE DEF f
<1>6. CASE Begun(s) = <<>>
    <2>1. ~ (GroupEnd(f) < Len(s))
        <3>1. Len(Begun(s)) = 0
            BY <1>6
        <3> QED
            BY <1>1, <1>5, <3>1
    <2> HIDE DEF G
    <2> QED
        BY <1>2, <1>3, <1>4, <1>6, <2>1
<1>7. CASE Begun(s) # <<>>
    <2>1. GroupEnd(f) < Len(s)
        <3>1. Len(Begun(s)) \in Nat /\ Len(Begun(s)) # 0
            BY <1>5, <1>7, EmptySeq, LenProperties
        <3> QED
            BY <1>1, <1>5, <3>1
    <2>2. Groups(s, TRUE) = G(f + 1)
        BY <1>3, <2>1
    <2> DEFINE last == FlattenSeq(Begun(s))
               q == G(f + 1)
    <2>3. last \in PipeItem
        BY <1>5, FlattenType
    <2>4. q[f + 1] = last
        <3>1. f + 1 \in 1 .. f + 1 /\ ~ (f + 1 <= f) /\ (f + 1) - 1 = f
            BY <1>1
        <3>2. q[f + 1] = FlattenSeq(SubSeq(s, GroupEnd(f) + 1, Len(s)))
            BY <3>1
        <3> HIDE DEF q
        <3> QED
            BY <1>5, <3>2
    <2>5. ASSUME NEW g \in 1 .. f PROVE q[g] = Batches(s)[g]
        <3>1. g \in 1 .. f + 1 /\ g <= f
            BY <1>1
        <3>2. q[g] = FlattenSeq(SubSeq(s, GroupEnd(g - 1) + 1, GroupEnd(g)))
            BY <3>1
        <3>3. G(f)[g] = FlattenSeq(SubSeq(s, GroupEnd(g - 1) + 1, GroupEnd(g)))
            BY <3>1
        <3> HIDE DEF q, G
        <3> QED
            BY <1>4, <3>2, <3>3
    <2>6. DOMAIN q = 1 .. f + 1
        OBVIOUS
    <2>7. q = [g \in 1 .. f + 1 |-> q[g]]
        OBVIOUS
    <2> HIDE DEF q, G, last
    <2>8. q \in [1 .. f + 1 -> PipeItem]
        <3>1. ASSUME NEW g \in 1 .. f + 1 PROVE q[g] \in PipeItem
            <4>1. g \in 1 .. f \/ g = f + 1
                BY <1>1
            <4>2. \A k \in 1 .. f : Batches(s)[k] \in PipeItem
                BY <1>5, ElementOfSeq
            <4> QED
                BY <2>3, <2>4, <2>5, <4>1, <4>2
        <3> QED
            BY <2>7, <3>1
    <2>9. q \in Seq(PipeItem) /\ Len(q) = f + 1
        <3>1. f + 1 \in Nat
            BY <1>1
        <3> QED
            BY <2>8, <3>1, IsSequence
    <2>10. q = Batches(s) \o <<q[Len(Batches(s)) + 1]>>
        <3>1. Len(q) = Len(Batches(s)) + 1 /\ \A g \in 1 .. Len(Batches(s)) : q[g] = Batches(s)[g]
            BY <1>5, <2>5, <2>9
        <3> QED
            BY <1>5, <2>9, <3>1, GrowsByOne
    <2>11. Groups(s, TRUE) = q
        BY <2>2 DEF q
    <2>12. q = Batches(s) \o <<last>>
        BY <1>5, <2>4, <2>10
    <2>13. Groups(s, TRUE) = Batches(s) \o <<FlattenSeq(Begun(s))>>
        BY <2>11, <2>12 DEF last
    <2> QED
        BY <1>2, <1>4, <1>7, <2>13
<1> QED
    BY <1>6, <1>7

\* The groups of a sequence with one more item: it fills the last one or does not.
LEMMA BatchesOfMore ==
    ASSUME NEW s \in Seq(PipeItem), NEW i \in PipeItem
    PROVE  /\ Len(Begun(s)) + 1 <= Size /\ Len(Begun(s)) \in Nat
           /\ Len(Begun(s)) + 1 = Size =>
                  /\ Batches(Append(s, i)) = Batches(s) \o <<FlattenSeq(Append(Begun(s), i))>>
                  /\ Begun(Append(s, i)) = <<>>
           /\ Len(Begun(s)) + 1 < Size =>
                  /\ Batches(Append(s, i)) = Batches(s)
                  /\ Begun(Append(s, i)) = Append(Begun(s), i)
<1> DEFINE t == Append(s, i)
           a == Len(s)
           f == FullGroups(s)
           e == GroupEnd(f)
           z == Size
           B(q, g) == FlattenSeq(SubSeq(q, GroupEnd(g - 1) + 1, GroupEnd(g)))
<1>1. /\ t \in Seq(PipeItem) /\ Len(t) = a + 1 /\ a \in Nat
    BY MoreIs
<1>2. /\ f \in Nat /\ e \in Nat /\ e <= a /\ a < e + z
      /\ GroupEnd(f + 1) \in Nat /\ GroupEnd(f + 1) = e + z
    <2>1. f \in Nat /\ e <= a /\ a < e + z
        BY FullGroupsAre
    <2> HIDE DEF f
    <2>2. f + 1 \in Nat
        BY <2>1
    <2>3. e \in Nat /\ GroupEnd(f + 1) \in Nat /\ GroupEnd(f + 1) = e + z
        BY <2>1, <2>2, GroupEnds
    <2> QED
        BY <2>1, <2>3
<1>3. /\ Begun(s) = SubSeq(s, e + 1, a) /\ Begun(s) \in Seq(PipeItem) /\ Len(Begun(s)) = a - e
      /\ Batches(s) \in Seq(PipeItem) /\ Len(Batches(s)) = f
    BY BatchesType
<1>4. /\ Begun(t) = SubSeq(t, GroupEnd(FullGroups(t)) + 1, a + 1) /\ Begun(t) \in Seq(PipeItem)
      /\ Len(Begun(t)) = (a + 1) - GroupEnd(FullGroups(t))
      /\ Batches(t) \in Seq(PipeItem) /\ Len(Batches(t)) = FullGroups(t)
    <2> HIDE DEF t
    <2> QED
        BY <1>1, BatchesType
<1>5. z \in Nat /\ z > 0
    BY SizeIs
<1>6. \A q \in Nat : GroupEnd(q) <= a + 1 /\ a + 1 < GroupEnd(q) + z => FullGroups(t) = q
    <2> HIDE DEF t
    <2>1. \A q \in Nat : GroupEnd(q) <= Len(t) /\ Len(t) < GroupEnd(q) + z => FullGroups(t) = q
        BY <1>1, FullGroupsAre
    <2> QED
        BY <1>1, <2>1
<1>7. SubSeq(t, e + 1, a + 1) = Append(Begun(s), i)
    <2> DEFINE m == e + 1
    <2>1. m \in Nat /\ m > 0 /\ m <= Len(s) + 1
        BY <1>1, <1>2
    <2> HIDE DEF m
    <2>2. SubSeq(t, m, a + 1) = SubSeq(s, m, a) \o <<i>>
        BY <2>1, SubSeqOfMore
    <2>3. Append(Begun(s), i) = Begun(s) \o <<i>>
        BY <1>3, AppendIsConcat
    <2> QED
        BY <1>3, <2>2, <2>3 DEF m
<1>8. ASSUME NEW g \in 1 .. f PROVE B(t, g) = B(s, g)
    <2>1. g - 1 \in Nat /\ g \in Nat /\ g <= f
        BY <1>2
    <2>2. GroupEnd(g - 1) \in Nat /\ GroupEnd(g) \in Nat /\ GroupEnd(g) <= e
        BY <1>2, <2>1, GroupEnds
    <2> DEFINE m == GroupEnd(g - 1) + 1
               k == GroupEnd(g)
    <2>3. m \in Nat /\ m > 0 /\ k \in 0 .. Len(s)
        BY <1>1, <1>2, <2>2
    <2> HIDE DEF m, k
    <2>4. SubSeq(t, m, k) = SubSeq(s, m, k)
        BY <2>3, SubSeqOfMore
    <2> QED
        BY <2>4 DEF m, k
<1>9. Batches(s) = [g \in 1 .. f |-> B(s, g)]
    BY DEF Batches
<1>10. Batches(t) = [g \in 1 .. FullGroups(t) |-> B(t, g)]
    BY DEF Batches
<1>11. \A g \in 1 .. f : B(t, g) = B(s, g)
    BY <1>8
<1>12. B(t, f + 1) = FlattenSeq(SubSeq(t, e + 1, GroupEnd(f + 1)))
    <2>1. (f + 1) - 1 = f
        BY <1>2
    <2> QED
        BY <2>1
<1> HIDE DEF t, a, f, e, z, B
<1>13. a - e + 1 <= z /\ a - e \in Nat
    BY <1>1, <1>2, <1>5
<1>14. ASSUME a - e + 1 = z
       PROVE  /\ Batches(t) = Batches(s) \o <<FlattenSeq(Append(Begun(s), i))>>
              /\ Begun(t) = <<>>
    <2>1. GroupEnd(f + 1) = a + 1
        BY <1>1, <1>2, <1>5, <1>14
    <2>2. FullGroups(t) = f + 1
        <3>1. f + 1 \in Nat
            BY <1>2
        <3>2. GroupEnd(f + 1) <= a + 1 /\ a + 1 < GroupEnd(f + 1) + z
            BY <1>1, <1>5, <2>1
        <3> QED
            BY <1>6, <3>1, <3>2
    <2>3. Begun(t) = <<>>
        <3>1. Len(Begun(t)) = 0
            BY <1>1, <1>4, <2>1, <2>2
        <3> QED
            BY <1>4, <3>1, EmptySeq
    <2>4. Batches(t)[f + 1] = FlattenSeq(Append(Begun(s), i))
        <3>1. f + 1 \in 1 .. f + 1
            BY <1>2
        <3>2. Batches(t)[f + 1] = B(t, f + 1)
            BY <1>10, <2>2, <3>1
        <3> QED
            BY <1>7, <1>12, <2>1, <3>2
    <2>5. ASSUME NEW g \in 1 .. f PROVE Batches(t)[g] = Batches(s)[g]
        <3>1. g \in 1 .. f + 1
            BY <1>2
        <3>2. Batches(t)[g] = B(t, g)
            BY <1>10, <2>2, <3>1
        <3>3. Batches(s)[g] = B(s, g)
            BY <1>9
        <3> QED
            BY <1>11, <3>2, <3>3
    <2>6. Len(Batches(t)) = Len(Batches(s)) + 1 /\ \A g \in 1 .. Len(Batches(s)) : Batches(t)[g] = Batches(s)[g]
        BY <1>3, <1>4, <2>2, <2>5
    <2>7. Batches(t) = Batches(s) \o <<Batches(t)[Len(Batches(s)) + 1]>>
        BY <1>3, <1>4, <2>6, GrowsByOne
    <2>8. Batches(t)[Len(Batches(s)) + 1] = FlattenSeq(Append(Begun(s), i))
        BY <1>3, <2>4
    <2>9. Batches(t) = Batches(s) \o <<FlattenSeq(Append(Begun(s), i))>>
        BY <2>7, <2>8
    <2> QED
        BY <2>3, <2>9
<1>15. ASSUME a - e + 1 < z
       PROVE  Batches(t) = Batches(s) /\ Begun(t) = Append(Begun(s), i)
    <2>1. FullGroups(t) = f
        <3>1. GroupEnd(f) <= a + 1 /\ a + 1 < GroupEnd(f) + z
            BY <1>1, <1>2, <1>5, <1>15 DEF e
        <3> QED
            BY <1>2, <1>6, <3>1
    <2>2. Begun(t) = Append(Begun(s), i)
        BY <1>4, <1>7, <2>1 DEF e
    <2>3. Batches(t) = Batches(s)
        BY <1>9, <1>10, <1>11, <2>1
    <2> QED
        BY <2>2, <2>3
<1> QED
    BY <1>3, <1>13, <1>14, <1>15 DEF t, z

LEMMA ChunkConsumes ==
    ASSUME NEW s \in Seq(PipeItem), NEW i \in PipeItem, NEW mem, Remembers("chunk", s, mem)
    PROVE  Consumes("chunk", s, i, mem)
<1> DEFINE t == Append(s, i)
           batch == Append(mem, i)
<1>1. t \in Seq(PipeItem)
    BY MoreIs
<1>2. mem = Begun(s) /\ mem \in Seq(PipeItem)
    BY DEF Remembers
<1>3. batch \in Seq(PipeItem) /\ Len(batch) = Len(mem) + 1 /\ Len(mem) \in Nat
    BY <1>2, MoreIs
<1>4. Result("chunk", s, FALSE) = Batches(s) /\ Result("chunk", t, FALSE) = Batches(t)
    <2> HIDE DEF t
    <2> QED
        BY <1>1, ResultIs, GroupsAre
<1>5. Batches(s) \in Seq(PipeItem)
    BY BatchesType
<1>6. ~Over("chunk", t, FALSE)
    BY OverIs DEF StageName
<1>7. Made("chunk", mem, i) = Chunk(mem, i)
    BY MadeIs
<1>8. /\ Len(mem) + 1 <= Size
      /\ Len(mem) + 1 = Size => Batches(t) = Batches(s) \o <<FlattenSeq(batch)>> /\ Begun(t) = <<>>
      /\ Len(mem) + 1 < Size => Batches(t) = Batches(s) /\ Begun(t) = batch
    BY <1>2, BatchesOfMore
<1>9. Len(batch) >= N <=> Len(batch) >= Size
    <2>1. Len(batch) \in Nat /\ Len(batch) > 0
        BY <1>3
    <2> HIDE DEF batch
    <2> QED
        BY <2>1, SizeIs
<1>10. FlattenSeq(batch) \in PipeItem
    <2> HIDE DEF batch
    <2> QED
        BY <1>3, FlattenType
<1>11. Size \in Nat
    BY SizeIs
<1>12. Chunk(mem, i) = IF Len(batch) >= N THEN Yielding(<<FlattenSeq(batch)>>, <<>>) ELSE Yielding(<<>>, batch)
    BY DEF Chunk
<1> HIDE DEF t, batch
<1>13. CASE Len(batch) >= Size
    <2> DEFINE out == <<FlattenSeq(batch)>>
               m == <<>>
    <2>1. Len(mem) + 1 = Size
        BY <1>3, <1>8, <1>11, <1>13
    <2>2. Made("chunk", mem, i) = Yielding(out, m)
        BY <1>7, <1>9, <1>12, <1>13
    <2>3. out \in Seq(PipeItem) /\ m \in Seq(PipeItem)
        BY <1>10
    <2>4. Remembers("chunk", t, m)
        BY <1>8, <2>1, <2>3 DEF Remembers
    <2>5. Result("chunk", t, FALSE) = Result("chunk", s, FALSE) \o out
        BY <1>4, <1>8, <2>1
    <2>6. Continues("chunk", s, i, out, m)
        BY <1>6, <2>4, <2>5 DEF Continues, t
    <2> HIDE DEF out, m
    <2> QED
        BY <2>2, <2>3, <2>6 DEF Consumes
<1>14. CASE ~(Len(batch) >= Size)
    <2> DEFINE out == <<>>
               m == batch
    <2>1. Len(mem) + 1 < Size
        BY <1>3, <1>8, <1>11, <1>14
    <2>2. Made("chunk", mem, i) = Yielding(out, m)
        BY <1>7, <1>9, <1>12, <1>14
    <2>3. out \in Seq(PipeItem) /\ m \in Seq(PipeItem)
        BY <1>3
    <2>4. Remembers("chunk", t, m)
        BY <1>8, <2>1, <2>3 DEF Remembers
    <2>5. Result("chunk", t, FALSE) = Result("chunk", s, FALSE) \o out
        BY <1>4, <1>5, <1>8, <2>1, ConcatEmptySeq
    <2>6. Continues("chunk", s, i, out, m)
        BY <1>6, <2>4, <2>5 DEF Continues, t
    <2> HIDE DEF out, m
    <2> QED
        BY <2>2, <2>3, <2>6 DEF Consumes
<1> QED
    BY <1>13, <1>14

----------------------------------------------------------------------------
(* Pipes: a stage remembers what its result says, and yields what is new.  *)

LEMMA StageConsumes ==
    ASSUME NEW stage \in StageName, NEW s \in Seq(PipeItem), NEW i \in PipeItem, NEW mem,
           Remembers(stage, s, mem), ~Over(stage, s, FALSE)
    PROVE  Consumes(stage, s, i, mem)
<1>1. CASE stage = "filter"
    BY <1>1, FilterConsumes
<1>2. CASE stage = "map"
    BY <1>2, MapConsumes
<1>3. CASE stage = "flatMap"
    BY <1>3, FlatMapConsumes
<1>4. CASE stage = "take"
    BY <1>4, TakeConsumes
<1>5. CASE stage = "skip"
    BY <1>5, SkipConsumes
<1>6. CASE stage = "unique"
    BY <1>6, UniqueConsumes
<1>7. CASE stage = "chunk"
    BY <1>7, ChunkConsumes
<1>8. CASE stage = "scan"
    BY <1>8, ScanConsumes
<1>9. CASE stage = "takeWhile"
    BY <1>9, TakeWhileConsumes
<1>10. CASE stage = "skipWhile"
    BY <1>10, SkipWhileConsumes
<1> QED
    BY <1>1, <1>2, <1>3, <1>4, <1>5, <1>6, <1>7, <1>8, <1>9, <1>10 DEF StageName

\* A sequence without an item.
LEMMA NoItems ==
    /\ <<>> \in Seq(PipeItem) /\ Len(<<>>) = 0 /\ DOMAIN <<>> = 1 .. 0 /\ 1 .. 0 = {}
    /\ \A m, n \in Int : n < m => SubSeq(<<>>, m, n) = <<>>
<1>1. \A m, n \in Int : n < m => SubSeq(<<>>, m, n) = <<>>
    BY SubSeqEmpty
<1>2. 1 .. 0 = {}
    OBVIOUS
<1> QED
    BY <1>1, <1>2

LEMMA NoLeading == Leading(<<>>) = 0
<1>1. Leading(<<>>) \in 0 .. Len(<<>>)
    BY NoItems, LeadingIs DEF IsLeading
<1> QED
    BY <1>1, NoItems

\* A stage that was given nothing makes nothing, and remembers nothing.
LEMMA StageStarts ==
    ASSUME NEW stage \in StageName
    PROVE  /\ Result(stage, <<>>, FALSE) = <<>> /\ ~Over(stage, <<>>, FALSE)
           /\ Remembers(stage, <<>>, <<>>)
<1> DEFINE s == <<>>
           R(st) == Result(st, s, FALSE)
<1>1. s \in Seq(PipeItem) /\ Len(s) = 0 /\ DOMAIN s = {} /\ N \in Nat /\ DOMAIN s = 1 .. 0
    BY NoItems, StreamAssumption
<1>2. Leading(s) = 0
    BY NoLeading
<1>3. SubSeq(s, 1, 0) = s /\ SubSeq(s, N + 1, 0) = s /\ SubSeq(s, 0 + 1, 0) = s
    <2>1. 1 \in Int /\ 0 \in Int /\ N + 1 \in Int /\ 0 < N + 1
        BY <1>1
    <2> QED
        BY <2>1, SubSeqEmpty
<1>4. FlattenSeq(s) = <<>>
    BY <1>1 DEF FlattenSeq
<1> HIDE DEF s
<1>5. ~Over(stage, s, FALSE)
    BY <1>1, <1>2 DEF Over
<1>6. \A f : f = [n \in DOMAIN s |-> f[n]] => f = s
    <2> SUFFICES ASSUME NEW f, f = [n \in DOMAIN s |-> f[n]] PROVE f = s
        OBVIOUS
    <2>1. DOMAIN f = 1 .. 0
        BY <1>1
    <2> QED
        BY <1>1, <2>1 DEF s
<1>7. Kept(s, {}) = s
    <2>1. Cardinality({}) = 0
        BY FS_EmptySet
    <2> DEFINE f == Kept(s, {})
    <2>2. DOMAIN f = DOMAIN s /\ f = [n \in DOMAIN f |-> f[n]]
        BY <1>1, <2>1 DEF Kept
    <2> HIDE DEF f
    <2>3. f = s
        BY <1>6, <2>2
    <2> QED
        BY <2>3 DEF f
<1>8. R("filter") = s
    <2>1. {n \in DOMAIN s : Holds(s[n])} = {}
        BY <1>1
    <2>2. R("filter") = Kept(s, {n \in DOMAIN s : Holds(s[n])})
        BY ResultIs
    <2> HIDE DEF R
    <2> QED
        BY <1>7, <2>1, <2>2
<1>9. R("unique") = s
    BY <1>1, <1>7, ResultIs, ZenonT(40)
<1>10. R("map") = s
    <2> DEFINE f == [n \in DOMAIN s |-> Mapped(s[n])]
    <2>1. f = [n \in DOMAIN s |-> f[n]]
        OBVIOUS
    <2>2. R("map") = f
        BY ResultIs
    <2> HIDE DEF f, R
    <2> QED
        BY <1>6, <2>1, <2>2
<1>11. R("flatMap") = s
    <2> DEFINE g == FlattenSeq(s)
               f == [n \in DOMAIN g |-> <<g[n]>>]
    <2>0. g = s
        BY <1>4 DEF s
    <2>1. f = [n \in DOMAIN g |-> f[n]] /\ DOMAIN f = DOMAIN g
        OBVIOUS
    <2>2. f = [n \in DOMAIN s |-> f[n]]
        <3> HIDE DEF f, g
        <3> QED
            BY <2>0, <2>1
    <2>3. R("flatMap") = f
        BY ResultIs
    <2> HIDE DEF f, R
    <2> QED
        BY <1>6, <2>2, <2>3
<1>12. R("scan") = s
    <2> DEFINE f == [n \in DOMAIN s |-> FlattenSeq(SubSeq(s, 1, n))]
    <2>1. f = [n \in DOMAIN s |-> f[n]]
        OBVIOUS
    <2>2. R("scan") = f
        BY ResultIs
    <2> HIDE DEF f, R
    <2> QED
        BY <1>6, <2>1, <2>2
<1>13. R("take") = s
    <2>1. R("take") = SubSeq(s, 1, 0)
        <3>1. 0 = IF Len(s) < N THEN Len(s) ELSE N
            BY <1>1
        <3> QED
            BY <3>1, ResultIs
    <2> QED
        BY <1>3, <2>1
<1>14. R("skip") = s
    <2>1. R("skip") = SubSeq(s, N + 1, 0)
        BY <1>1, ResultIs
    <2> QED
        BY <1>1, <1>3, <2>1
<1>15. R("takeWhile") = s
    <2>1. R("takeWhile") = SubSeq(s, 1, 0)
        BY <1>2, ResultIs
    <2> QED
        BY <1>3, <2>1
<1>16. R("skipWhile") = s
    <2>1. R("skipWhile") = SubSeq(s, 0 + 1, 0)
        BY <1>1, <1>2, ResultIs
    <2> QED
        BY <1>3, <2>1
<1>17. FullGroups(s) = 0 /\ GroupEnd(0) = 0
    <2> DEFINE z == Size
    <2>1. z \in Nat /\ z > 0
        BY SizeIs
    <2>2. GroupEnd(0) = z * 0
        BY DEF GroupEnd
    <2> HIDE DEF z
    <2>3. GroupEnd(0) = 0
        BY <2>1, <2>2
    <2>4. GroupEnd(0) <= Len(s) /\ Len(s) < GroupEnd(0) + z
        BY <1>1, <2>1, <2>3
    <2> QED
        BY <1>1, <2>3, <2>4, FullGroupsAre DEF z
<1>18. Begun(s) = s
    <2>0. Begun(s) \in Seq(PipeItem) /\ Len(Begun(s)) = Len(s) - GroupEnd(FullGroups(s))
        BY <1>1, BatchesType
    <2>1. Begun(s) \in Seq(PipeItem) /\ Len(Begun(s)) = 0
        BY <1>1, <1>17, <2>0
    <2> QED
        BY <2>1, EmptySeq DEF s
<1>19. R("chunk") = s
    <2>1. Batches(s) \in Seq(PipeItem) /\ Len(Batches(s)) = 0
        BY <1>1, <1>17, BatchesType
    <2>2. R("chunk") = Batches(s)
        BY <1>1, ResultIs, GroupsAre
    <2> QED
        BY <2>1, <2>2, EmptySeq DEF s
<1>20. R(stage) = s
    <2> HIDE DEF R
    <2> QED
        BY <1>8, <1>9, <1>10, <1>11, <1>12, <1>13, <1>14, <1>15, <1>16, <1>19 DEF StageName
<1>21. Remembers(stage, s, s)
    BY <1>1, <1>2, <1>18 DEF Remembers, s
<1> QED
    BY <1>5, <1>20, <1>21 DEF s

\* A stage that is over stays so, and makes nothing of what comes.
LEMMA OverStays ==
    ASSUME NEW stage \in StageName, NEW s \in Seq(PipeItem), NEW i \in PipeItem, Over(stage, s, FALSE)
    PROVE  Ends(stage, s, i)
<1> DEFINE t == Append(s, i)
           l == Len(s)
<1>1. l \in Nat /\ Len(t) = l + 1 /\ t \in Seq(PipeItem) /\ N \in Nat
    BY MoreIs, StreamAssumption
<1>2. (stage = "take" /\ l > N) \/ (stage = "takeWhile" /\ Leading(s) < l)
    BY DEF Over
<1>3. CASE stage = "take" /\ l > N
    <2>1. N = IF l < N THEN l ELSE N
        BY <1>1, <1>3
    <2>2. N = IF Len(t) < N THEN Len(t) ELSE N
        BY <1>1, <1>3
    <2>3. Result("take", s, FALSE) = SubSeq(s, 1, N) /\ Result("take", t, FALSE) = SubSeq(t, 1, N)
        BY <2>1, <2>2, ResultIs
    <2>4. SubSeq(t, 1, N) = SubSeq(s, 1, N)
        <3>1. N \in 0 .. l
            BY <1>1, <1>3
        <3> QED
            BY <3>1, SubSeqOfMore
    <2>5. Over("take", t, FALSE)
        BY <1>1, <1>3 DEF Over
    <2> QED
        BY <1>3, <2>3, <2>4, <2>5 DEF Ends
<1>4. CASE stage = "takeWhile" /\ Leading(s) < l
    <2>1. Leading(t) = Leading(s) /\ Leading(s) \in 0 .. l
        BY <1>4, LeadingOfMore
    <2> DEFINE k == Leading(s)
    <2>2. Result("takeWhile", s, FALSE) = SubSeq(s, 1, k) /\ Result("takeWhile", t, FALSE) = SubSeq(t, 1, k)
        BY <2>1, ResultIs
    <2>3. SubSeq(t, 1, k) = SubSeq(s, 1, k)
        BY <2>1, SubSeqOfMore
    <2>4. Over("takeWhile", t, FALSE)
        BY <1>1, <1>4, <2>1 DEF Over
    <2> QED
        BY <1>4, <2>2, <2>3, <2>4 DEF Ends
<1> QED
    BY <1>2, <1>3, <1>4

----------------------------------------------------------------------------
(* Pipes: results only grow, and what a stage yields is the result's.      *)

\* The second sequence goes on where the first ends.
GrowsTo(s, t) == \E x \in Seq(PipeItem) : t = s \o x

LEMMA GrowsIsOrder ==
    ASSUME NEW s \in Seq(PipeItem), NEW t \in Seq(PipeItem), NEW u \in Seq(PipeItem)
    PROVE  /\ GrowsTo(s, s) /\ GrowsTo(s, s \o t)
           /\ GrowsTo(s, t) /\ GrowsTo(t, u) => GrowsTo(s, u)
           /\ GrowsTo(s \o t, u) => GrowsTo(s, u)
<1>1. GrowsTo(s, s)
    <2>1. <<>> \in Seq(PipeItem) /\ s = s \o <<>>
        BY ConcatEmptySeq
    <2> QED
        BY <2>1 DEF GrowsTo
<1>2. GrowsTo(s, s \o t)
    BY DEF GrowsTo
<1>3. ASSUME GrowsTo(s, t), GrowsTo(t, u) PROVE GrowsTo(s, u)
    <2>1. PICK x \in Seq(PipeItem) : t = s \o x
        BY <1>3 DEF GrowsTo
    <2>2. PICK y \in Seq(PipeItem) : u = t \o y
        BY <1>3 DEF GrowsTo
    <2>3. x \o y \in Seq(PipeItem)
        BY ConcatProperties
    <2>4. (s \o x) \o y = s \o (x \o y)
        BY ConcatAssociative
    <2> QED
        BY <2>1, <2>2, <2>3, <2>4 DEF GrowsTo
<1>4. ASSUME GrowsTo(s \o t, u) PROVE GrowsTo(s, u)
    <2>2. PICK y \in Seq(PipeItem) : u = (s \o t) \o y
        BY <1>4 DEF GrowsTo
    <2>3. t \o y \in Seq(PipeItem)
        BY ConcatProperties
    <2>4. (s \o t) \o y = s \o (t \o y)
        BY ConcatAssociative
    <2> QED
        BY <2>2, <2>3, <2>4 DEF GrowsTo
<1> QED
    BY <1>1, <1>2, <1>3, <1>4

\* A sequence that another goes on with is one of its prefixes.
LEMMA GrowsIsPrefix ==
    ASSUME NEW s \in Seq(PipeItem), NEW t \in Seq(PipeItem), GrowsTo(s, t)
    PROVE  IsPrefix(s, t)
<1>1. PICK x \in Seq(PipeItem) : t = s \o x
    BY DEF GrowsTo
<1>2. Len(s) \in Nat /\ Len(x) \in Nat /\ Len(t) = Len(s) + Len(x)
    BY <1>1, ConcatProperties, LenProperties
<1>3. SubSeq(t, 1, Len(s)) = SubSeq(s, 1, Len(s))
    <2> DEFINE l == Len(s)
    <2>1. \A k \in 1 .. l : s[k] \in PipeItem /\ t[k] \in PipeItem /\ t[k] = s[k]
        <3> TAKE k \in 1 .. l
        <3>1. k \in 1 .. Len(s) + Len(x) /\ k \in 1 .. Len(s) /\ k \in 1 .. Len(t) /\ k <= Len(s)
            BY <1>2
        <3>2. t[k] = s[k]
            BY <1>1, <3>1, ConcatProperties
        <3> QED
            BY <3>1, <3>2, ElementOfSeq
    <2>2. 1 \in Int /\ l \in Int /\ (IF 1 <= l THEN l - 1 + 1 ELSE 0) = l /\ l - 1 + 1 = l
        BY <1>2
    <2> HIDE DEF l
    <2>3. /\ SubSeq(s, 1, l) \in Seq(PipeItem) /\ Len(SubSeq(s, 1, l)) = l
          /\ \A k \in 1 .. l : SubSeq(s, 1, l)[k] = s[1 + k - 1]
        BY <2>1, <2>2, SubSeqProperties
    <2>4. /\ SubSeq(t, 1, l) \in Seq(PipeItem) /\ Len(SubSeq(t, 1, l)) = l
          /\ \A k \in 1 .. l : SubSeq(t, 1, l)[k] = t[1 + k - 1]
        BY <2>1, <2>2, SubSeqProperties
    <2>5. \A k \in 1 .. l : SubSeq(t, 1, l)[k] = SubSeq(s, 1, l)[k]
        <3> TAKE k \in 1 .. l
        <3>1. 1 + k - 1 = k
            BY <2>2
        <3> QED
            BY <2>1, <2>3, <2>4, <3>1
    <2>6. SubSeq(t, 1, l) = SubSeq(s, 1, l)
        BY <2>3, <2>4, <2>5, SeqEqual
    <2> QED
        BY <2>6 DEF l
<1> QED
    BY <1>2, <1>3 DEF IsPrefix

\* What a stage makes of its items before its source has ended, and that it has
\* something to remember of them.
Sound(stage, s) ==
    /\ Result(stage, s, FALSE) \in Seq(PipeItem)
    /\ ~Over(stage, s, FALSE) => \E mem : Remembers(stage, s, mem)

\* What it makes of more items goes on with that, and is that when it is over.
Grows(stage, s, t) ==
    /\ GrowsTo(Result(stage, s, FALSE), Result(stage, t, FALSE))
    /\ Over(stage, s, FALSE) => /\ Result(stage, t, FALSE) = Result(stage, s, FALSE)
                                /\ Over(stage, t, FALSE)

LEMMA SoundOfMore ==
    ASSUME NEW stage \in StageName, NEW s \in Seq(PipeItem), NEW i \in PipeItem, Sound(stage, s)
    PROVE  Sound(stage, Append(s, i)) /\ Grows(stage, s, Append(s, i))
<1> DEFINE t == Append(s, i)
<1>1. Result(stage, s, FALSE) \in Seq(PipeItem)
    BY DEF Sound
<1>2. ASSUME Ends(stage, s, i) PROVE Sound(stage, t) /\ Grows(stage, s, t)
    <2>1. Result(stage, t, FALSE) = Result(stage, s, FALSE) /\ Over(stage, t, FALSE)
        BY <1>2 DEF Ends
    <2> HIDE DEF t
    <2>2. GrowsTo(Result(stage, s, FALSE), Result(stage, t, FALSE))
        BY <1>1, <2>1, GrowsIsOrder
    <2> QED
        BY <1>1, <2>1, <2>2 DEF Sound, Grows
<1>3. CASE Over(stage, s, FALSE)
    BY <1>2, <1>3, OverStays
<1>4. CASE ~Over(stage, s, FALSE)
    <2>1. PICK mem : Remembers(stage, s, mem)
        BY <1>4 DEF Sound
    <2>2. Consumes(stage, s, i, mem)
        BY <1>4, <2>1, StageConsumes
    <2>3. ASSUME NEW out \in Seq(PipeItem), NEW m, Continues(stage, s, i, out, m)
          PROVE  Sound(stage, t) /\ Grows(stage, s, t)
        <3>1. /\ Result(stage, t, FALSE) = Result(stage, s, FALSE) \o out
              /\ Remembers(stage, t, m) /\ ~Over(stage, t, FALSE)
            BY <2>3 DEF Continues
        <3> HIDE DEF t
        <3>2. Result(stage, t, FALSE) \in Seq(PipeItem)
            BY <1>1, <3>1, ConcatProperties
        <3>3. GrowsTo(Result(stage, s, FALSE), Result(stage, t, FALSE))
            BY <1>1, <3>1 DEF GrowsTo
        <3> QED
            BY <1>4, <3>1, <3>2, <3>3 DEF Sound, Grows
    <2> QED
        BY <1>2, <2>2, <2>3 DEF Consumes
<1> QED
    BY <1>3, <1>4

LEMMA GrowsFurther ==
    ASSUME NEW stage, NEW s, NEW t, NEW u, Sound(stage, s), Sound(stage, t), Sound(stage, u),
           Grows(stage, s, t), Grows(stage, t, u)
    PROVE  Grows(stage, s, u)
<1>1. /\ Result(stage, s, FALSE) \in Seq(PipeItem) /\ Result(stage, t, FALSE) \in Seq(PipeItem)
      /\ Result(stage, u, FALSE) \in Seq(PipeItem)
    BY DEF Sound
<1>2. GrowsTo(Result(stage, s, FALSE), Result(stage, u, FALSE))
    BY <1>1, GrowsIsOrder DEF Grows
<1> QED
    BY <1>2 DEF Grows

\* The first items of a sequence, and one more of them.
LEMMA UpToGrows ==
    ASSUME NEW s \in Seq(PipeItem), NEW k \in Nat, k + 1 <= Len(s)
    PROVE  /\ SubSeq(s, 1, k) \in Seq(PipeItem) /\ s[k + 1] \in PipeItem
           /\ SubSeq(s, 1, k + 1) = Append(SubSeq(s, 1, k), s[k + 1])
<1>1. Len(s) \in Nat
    BY LenProperties
<1>2. s[k + 1] \in PipeItem
    <2>1. k + 1 \in 1 .. Len(s)
        BY <1>1
    <2> QED
        BY <2>1, ElementOfSeq
<1>3. SubSeq(s, 1, k) \in Seq(PipeItem)
    <2>1. \A j \in 1 .. k : s[j] \in PipeItem
        <3>1. \A j \in 1 .. k : j \in 1 .. Len(s)
            BY <1>1
        <3> QED
            BY <3>1, ElementOfSeq
    <2> QED
        BY <2>1, SubSeqProperties
<1>4. SubSeq(s, 1, k + 1) = SubSeq(s, 1, k) \o <<s[k + 1]>>
    <2> DEFINE l == k + 1
    <2>1. 1 \in 1 .. Len(s) /\ l \in 1 .. Len(s) /\ l - 1 = k
        BY <1>1
    <2> HIDE DEF l
    <2>2. SubSeq(s, 1, l) = SubSeq(s, 1, l - 1) \o <<s[l]>>
        BY <2>1, SubSeqRecursiveSecond
    <2> QED
        BY <2>1, <2>2 DEF l
<1>5. Append(SubSeq(s, 1, k), s[k + 1]) = SubSeq(s, 1, k) \o <<s[k + 1]>>
    BY <1>2, <1>3, AppendIsConcat
<1> QED
    BY <1>2, <1>3, <1>4, <1>5

\* Every stage is sound, whatever it is given.
LEMMA StageIsSound ==
    ASSUME NEW stage \in StageName, NEW s \in Seq(PipeItem)
    PROVE  Sound(stage, s)
<1> DEFINE p(k) == SubSeq(s, 1, k)
           Reached == {k \in Nat : k <= Len(s) => Sound(stage, p(k))}
<1>1. Len(s) \in Nat
    BY LenProperties
<1>2. 0 \in Reached
    <2>1. p(0) = <<>>
        BY SubSeqEmpty
    <2>2. Sound(stage, <<>>)
        BY StageStarts, EmptySeq DEF Sound
    <2> QED
        BY <2>1, <2>2
<1>3. ASSUME NEW k \in Nat, k \in Reached PROVE k + 1 \in Reached
    <2> SUFFICES ASSUME k + 1 <= Len(s) PROVE Sound(stage, p(k + 1))
        OBVIOUS
    <2>1. k <= Len(s) /\ k + 1 \in 1 .. Len(s) /\ k \in 0 .. Len(s)
        BY <1>1
    <2>2. Sound(stage, p(k))
        BY <1>3, <2>1
    <2>3. p(k) \in Seq(PipeItem) /\ s[k + 1] \in PipeItem /\ p(k + 1) = Append(p(k), s[k + 1])
        BY <2>1, UpToGrows
    <2> HIDE DEF p
    <2> QED
        BY <2>2, <2>3, SoundOfMore
<1> HIDE DEF Reached
<1>4. Len(s) \in Reached
    <2>1. \A k \in Nat : k \in Reached => k + 1 \in Reached
        BY <1>3
    <2> QED
        BY <1>1, <1>2, <2>1, Induction
<1>5. p(Len(s)) = s
    BY SubSeqFull
<1> HIDE DEF p
<1>6. Sound(stage, p(Len(s)))
    BY <1>1, <1>4 DEF Reached
<1> QED
    BY <1>5, <1>6

\* What a stage makes of a sequence goes on with what it makes of its first items.
LEMMA StageGrows ==
    ASSUME NEW stage \in StageName, NEW s \in Seq(PipeItem), NEW x \in Seq(PipeItem)
    PROVE  Grows(stage, s, s \o x)
<1> DEFINE p(k) == s \o SubSeq(x, 1, k)
           Reached == {k \in Nat : k <= Len(x) => Grows(stage, s, p(k))}
<1>1. Len(x) \in Nat /\ Sound(stage, s)
    BY LenProperties, StageIsSound
<1>2. 0 \in Reached
    <2>1. p(0) = s
        <3>1. SubSeq(x, 1, 0) = <<>>
            BY SubSeqEmpty
        <3>2. s \o <<>> = s
            BY ConcatEmptySeq
        <3> QED
            BY <3>1, <3>2
    <2>2. Grows(stage, s, s)
        BY <1>1, GrowsIsOrder DEF Sound, Grows
    <2> QED
        BY <2>1, <2>2
<1>3. ASSUME NEW k \in Nat, k \in Reached PROVE k + 1 \in Reached
    <2> SUFFICES ASSUME k + 1 <= Len(x) PROVE Grows(stage, s, p(k + 1))
        OBVIOUS
    <2>1. k <= Len(x)
        BY <1>1
    <2>2. Grows(stage, s, p(k))
        BY <1>3, <2>1
    <2>3. /\ SubSeq(x, 1, k) \in Seq(PipeItem) /\ x[k + 1] \in PipeItem
          /\ SubSeq(x, 1, k + 1) = Append(SubSeq(x, 1, k), x[k + 1])
        BY UpToGrows
    <2>4. p(k) \in Seq(PipeItem)
        BY <2>3, ConcatProperties
    <2>5. p(k + 1) = Append(p(k), x[k + 1])
        <3> DEFINE y == SubSeq(x, 1, k)
                   e == x[k + 1]
        <3>1. y \in Seq(PipeItem) /\ <<e>> \in Seq(PipeItem) /\ e \in PipeItem /\ s \o y \in Seq(PipeItem)
            BY <2>3, <2>4
        <3>2. SubSeq(x, 1, k + 1) = Append(y, e)
            BY <2>3
        <3> HIDE DEF y, e
        <3>3. Append(y, e) = y \o <<e>> /\ Append(s \o y, e) = (s \o y) \o <<e>>
            BY <3>1, AppendIsConcat
        <3>4. s \o (y \o <<e>>) = (s \o y) \o <<e>>
            BY <3>1, ConcatAssociative
        <3>5. s \o SubSeq(x, 1, k + 1) = Append(s \o y, e)
            BY <3>2, <3>3, <3>4
        <3> QED
            BY <3>5 DEF y, e
    <2> HIDE DEF p
    <2>6. Sound(stage, p(k)) /\ Sound(stage, p(k + 1)) /\ Grows(stage, p(k), p(k + 1))
        BY <2>3, <2>4, <2>5, StageIsSound, SoundOfMore
    <2> QED
        BY <1>1, <2>2, <2>6, GrowsFurther
<1> HIDE DEF Reached
<1>4. Len(x) \in Reached
    <2>1. \A k \in Nat : k \in Reached => k + 1 \in Reached
        BY <1>3
    <2> QED
        BY <1>1, <1>2, <2>1, Induction
<1>5. p(Len(x)) = s \o x
    <2>1. SubSeq(x, 1, Len(x)) = x
        BY SubSeqFull
    <2> QED
        BY <2>1
<1> HIDE DEF p
<1>6. Grows(stage, s, p(Len(x)))
    BY <1>1, <1>4 DEF Reached
<1> QED
    BY <1>5, <1>6

\* Only sChunk makes more of its items when they are all there are.
LEMMA ResultOfWhole ==
    ASSUME NEW stage, NEW s, NEW w, stage # "chunk"
    PROVE  Result(stage, s, w) = Result(stage, s, FALSE)
    BY DEF Result

\* At the end of its source a stage yields what it has begun and not yielded.
LEMMA StageFlushes ==
    ASSUME NEW stage \in StageName, NEW s \in Seq(PipeItem), NEW mem, Remembers(stage, s, mem)
    PROVE  /\ Flushed(stage, mem) \in Seq(PipeItem)
           /\ Result(stage, s, TRUE) = Result(stage, s, FALSE) \o Flushed(stage, mem)
<1> DEFINE none == <<>>
<1>1. Result(stage, s, FALSE) \in Seq(PipeItem)
    BY StageIsSound DEF Sound
<1>2. none \in Seq(PipeItem) /\ Result(stage, s, FALSE) \o none = Result(stage, s, FALSE)
    BY <1>1, ConcatEmptySeq
<1>3. CASE stage # "chunk"
    <2>1. Result(stage, s, TRUE) = Result(stage, s, FALSE)
        BY <1>3, ResultOfWhole
    <2>2. Flushed(stage, mem) = none
        BY <1>3 DEF Flushed
    <2> HIDE DEF none
    <2> QED
        BY <1>2, <2>1, <2>2
<1>4. CASE stage = "chunk"
    <2>1. mem = Begun(s) /\ mem \in Seq(PipeItem)
        BY <1>4 DEF Remembers
    <2>2. Result(stage, s, TRUE) = Groups(s, TRUE) /\ Result(stage, s, FALSE) = Groups(s, FALSE)
        BY <1>4, ResultIs
    <2>3. CASE mem = none
        <3>1. Flushed(stage, mem) = none
            BY <2>3 DEF Flushed
        <3>2. Groups(s, TRUE) = Groups(s, FALSE)
            BY <2>1, <2>3, GroupsAre
        <3> HIDE DEF none
        <3> QED
            BY <1>2, <2>2, <3>1, <3>2
    <2>4. CASE mem # none
        <3> DEFINE last == <<FlattenSeq(mem)>>
        <3>1. Flushed(stage, mem) = last
            BY <1>4, <2>4 DEF Flushed
        <3>2. Groups(s, TRUE) = Groups(s, FALSE) \o last
            BY <2>1, <2>4, GroupsAre
        <3>3. last \in Seq(PipeItem)
            <4>1. FlattenSeq(mem) \in PipeItem
                BY <2>1, FlattenType
            <4> QED
                BY <4>1
        <3> HIDE DEF last
        <3> QED
            BY <2>2, <3>1, <3>2, <3>3
    <2> QED
        BY <2>3, <2>4
<1> QED
    BY <1>3, <1>4

\* So what is to come of all it is given goes on with what it has made of some of it.
LEMMA StageDelivers ==
    ASSUME NEW stage \in StageName, NEW s \in Seq(PipeItem), NEW u \in Seq(PipeItem),
           GrowsTo(s, u), NEW w \in BOOLEAN
    PROVE  /\ Result(stage, u, w) \in Seq(PipeItem) /\ Over(stage, u, w) \in BOOLEAN
           /\ GrowsTo(Result(stage, s, FALSE), Result(stage, u, w))
           /\ Over(stage, s, FALSE) => /\ Result(stage, u, w) = Result(stage, s, FALSE)
                                       /\ Over(stage, u, w)
<1>1. Grows(stage, s, u)
    BY StageGrows DEF GrowsTo
<1>2. Result(stage, u, FALSE) \in Seq(PipeItem) /\ Result(stage, s, FALSE) \in Seq(PipeItem)
    BY StageIsSound DEF Sound
<1>3. Over(stage, u, w) \in BOOLEAN /\ (Over(stage, u, FALSE) => Over(stage, u, w))
    BY DEF Over
<1>4. CASE w = FALSE
    BY <1>1, <1>2, <1>3, <1>4 DEF Grows
<1>5. CASE w = TRUE /\ Over(stage, u, FALSE)
    <2>1. stage # "chunk"
        BY <1>5, OverIs
    <2>2. Result(stage, u, w) = Result(stage, u, FALSE)
        BY <2>1, ResultOfWhole
    <2> QED
        BY <1>1, <1>2, <1>3, <1>5, <2>2 DEF Grows
<1>6. CASE w = TRUE /\ ~Over(stage, u, FALSE)
    <2>1. PICK mem : Remembers(stage, u, mem)
        BY <1>6, StageIsSound DEF Sound
    <2>2. /\ Flushed(stage, mem) \in Seq(PipeItem)
          /\ Result(stage, u, w) = Result(stage, u, FALSE) \o Flushed(stage, mem)
        BY <1>6, <2>1, StageFlushes
    <2>3. Result(stage, u, w) \in Seq(PipeItem) /\ GrowsTo(Result(stage, u, FALSE), Result(stage, u, w))
        BY <1>2, <2>2, ConcatProperties DEF GrowsTo
    <2>4. GrowsTo(Result(stage, s, FALSE), Result(stage, u, w))
        BY <1>1, <1>2, <2>3, GrowsIsOrder DEF Grows
    <2>5. ~Over(stage, s, FALSE)
        BY <1>1, <1>6 DEF Grows
    <2> QED
        BY <1>3, <2>3, <2>4, <2>5
<1> QED
    BY <1>4, <1>5, <1>6

----------------------------------------------------------------------------
(* Pipes: what each stage has to yield, by recursion over the stages.      *)

\* What the stages are to make of a source, one after the other.
PipeRun(st, src, ends) ==
  CHOOSE upTo : upTo = [j \in 0 .. Len(st) |->
        IF j = 0 THEN [items |-> src, whole |-> ends]
        ELSE [items |-> Result(st[j], upTo[j - 1].items, upTo[j - 1].whole),
              whole |-> Over(st[j], upTo[j - 1].items, upTo[j - 1].whole)]]

Due(j) == PipeRun(stages, sourced, dry)[j].items
AllDue(j) == PipeRun(stages, sourced, dry)[j].whole

LEMMA PromisedIsDue == Promised(Len(stages)) = Due(Len(stages))
  BY DEF Promised, Due, PipeRun

DueType == [items : Seq(PipeItem), whole : BOOLEAN]
AfterStage(stage, v) == [items |-> Result(stage, v.items, v.whole), whole |-> Over(stage, v.items, v.whole)]

LEMMA AfterStageType ==
    ASSUME NEW stage \in StageName, NEW v \in DueType
    PROVE  AfterStage(stage, v) \in DueType
<1>1. v.items \in Seq(PipeItem) /\ v.whole \in BOOLEAN
    BY DEF DueType
<1>2. Result(stage, v.items, v.whole) \in Seq(PipeItem) /\ Over(stage, v.items, v.whole) \in BOOLEAN
    BY <1>1, GrowsIsOrder, StageDelivers
<1> QED
    BY <1>2 DEF AfterStage, DueType

LEMMA RunExists ==
    ASSUME NEW st \in Seq(StageName), NEW src \in Seq(PipeItem), NEW ends \in BOOLEAN
    PROVE  \E h \in [0 .. Len(st) -> DueType] :
               /\ h[0] = [items |-> src, whole |-> ends]
               /\ \A j \in 1 .. Len(st) : h[j] = AfterStage(st[j], h[j - 1])
<1> DEFINE n == Len(st)
           V == DueType
           base == [items |-> src, whole |-> ends]
           step == [k \in 1 .. n |-> [v \in V |-> AfterStage(st[k], v)]]
<1>1. n \in Nat /\ base \in V /\ \A k \in 1 .. n : st[k] \in StageName
    BY ElementOfSeq DEF DueType
<1>2. step \in [1 .. n -> [V -> V]]
    <2>1. ASSUME NEW k \in 1 .. n, NEW v \in V PROVE AfterStage(st[k], v) \in V
        BY <1>1, AfterStageType
    <2> HIDE DEF V, n
    <2> QED
        BY <2>1
<1>3. \A k \in 1 .. n, v \in V : step[k][v] = AfterStage(st[k], v)
    OBVIOUS
<1> HIDE DEF n, V, base, step
<1>4. PICK g \in [SUBSET (1 .. n) -> V] : Folding(g, base, n, step)
    BY <1>1, <1>2, FoldExists
<1>5. Stepping(g, V, base, n, step)
    <2>1. g[{}] = base
        BY <1>4 DEF Folding
    <2> QED
        BY <1>4, <2>1 DEF Folding, Stepping
<1>6. PICK h \in [0 .. n -> V] : Trace(h, base, n, step)
    BY <1>1, <1>2, <1>5, FoldTrace
<1>7. h[0] = base
    BY <1>6 DEF Trace
<1>8. ASSUME NEW k \in 1 .. n PROVE h[k] = AfterStage(st[k], h[k - 1])
    <2>1. h[k - 1] \in V
        BY <1>1, <1>6
    <2>2. h[k] = step[k][h[k - 1]]
        BY <1>6 DEF Trace
    <2> QED
        BY <1>3, <2>1, <2>2
<1> QED
    BY <1>6, <1>7, <1>8 DEF n, V, base

\* The choice of a function that follows its recursion is one that does.
LEMMA RunFollows ==
    ASSUME NEW st \in Seq(StageName), NEW src \in Seq(PipeItem), NEW ends \in BOOLEAN
    PROVE  /\ PipeRun(st, src, ends)[0] = [items |-> src, whole |-> ends]
           /\ \A j \in 1 .. Len(st) : PipeRun(st, src, ends)[j] = AfterStage(st[j], PipeRun(st, src, ends)[j - 1])
<1> DEFINE n == Len(st)
           base == [items |-> src, whole |-> ends]
           Is(f) == f = [j \in 0 .. n |-> IF j = 0 THEN base ELSE AfterStage(st[j], f[j - 1])]
           it == CHOOSE f : Is(f)
<1>1. PipeRun(st, src, ends) = it
    BY DEF PipeRun, AfterStage
<1>2. PICK h \in [0 .. n -> DueType] :
          h[0] = base /\ \A j \in 1 .. n : h[j] = AfterStage(st[j], h[j - 1])
    BY RunExists
<1>3. n \in Nat
    BY LenProperties
<1> HIDE DEF base, n
<1>4. Is(h)
    <2>1. ASSUME NEW j \in 0 .. n PROVE h[j] = IF j = 0 THEN base ELSE AfterStage(st[j], h[j - 1])
        <3>1. j = 0 \/ j \in 1 .. n
            BY <1>3
        <3> QED
            BY <1>2, <3>1
    <2> QED
        BY <1>2, <2>1
<1>5. Is(it)
    <2> HIDE DEF Is
    <2> QED
        BY <1>4
<1> HIDE DEF it
<1>6. it[0] = base
    <2>1. 0 \in 0 .. n
        BY <1>3
    <2> QED
        BY <1>5, <2>1
<1>7. ASSUME NEW j \in 1 .. n PROVE it[j] = AfterStage(st[j], it[j - 1])
    <2>1. j \in 0 .. n /\ j # 0
        BY <1>3
    <2> QED
        BY <1>5, <2>1
<1> QED
    BY <1>1, <1>6, <1>7 DEF base, n

\* What comes of the first stages, and whether that is all.
LEMMA RunIs ==
    ASSUME NEW st \in Seq(StageName), NEW src \in Seq(PipeItem), NEW ends \in BOOLEAN
    PROVE  /\ PipeRun(st, src, ends)[0].items = src /\ PipeRun(st, src, ends)[0].whole = ends
           /\ \A j \in 1 .. Len(st) :
                 LET before == PipeRun(st, src, ends)[j - 1]
                 IN  /\ PipeRun(st, src, ends)[j].items = Result(st[j], before.items, before.whole)
                     /\ PipeRun(st, src, ends)[j].whole = Over(st[j], before.items, before.whole)
           /\ \A j \in 0 .. Len(st) : PipeRun(st, src, ends)[j] \in DueType
<1> DEFINE r == PipeRun(st, src, ends)
           n == Len(st)
<1>1. /\ r[0] = [items |-> src, whole |-> ends]
      /\ \A j \in 1 .. n : r[j] = AfterStage(st[j], r[j - 1])
    BY RunFollows
<1>2. n \in Nat /\ \A j \in 1 .. n : st[j] \in StageName
    BY LenProperties, ElementOfSeq
<1> HIDE DEF r, n
<1>3. r[0].items = src /\ r[0].whole = ends
    BY <1>1
<1>4. ASSUME NEW j \in 1 .. n
      PROVE  /\ r[j].items = Result(st[j], r[j - 1].items, r[j - 1].whole)
             /\ r[j].whole = Over(st[j], r[j - 1].items, r[j - 1].whole)
    <2>1. r[j] = AfterStage(st[j], r[j - 1])
        BY <1>1
    <2>2. /\ AfterStage(st[j], r[j - 1]).items = Result(st[j], r[j - 1].items, r[j - 1].whole)
          /\ AfterStage(st[j], r[j - 1]).whole = Over(st[j], r[j - 1].items, r[j - 1].whole)
        <3> DEFINE a == Result(st[j], r[j - 1].items, r[j - 1].whole)
                   b == Over(st[j], r[j - 1].items, r[j - 1].whole)
        <3>1. AfterStage(st[j], r[j - 1]) = [items |-> a, whole |-> b]
            BY DEF AfterStage
        <3> HIDE DEF a, b
        <3>2. AfterStage(st[j], r[j - 1]).items = a /\ AfterStage(st[j], r[j - 1]).whole = b
            BY <3>1
        <3> QED
            BY <3>2 DEF a, b
    <2> QED
        BY <2>1, <2>2
<1> DEFINE Typed == {j \in Nat : j <= n => r[j] \in DueType}
<1>5. 0 \in Typed
    BY <1>1 DEF DueType
<1>6. ASSUME NEW j \in Nat, j \in Typed PROVE j + 1 \in Typed
    <2> SUFFICES ASSUME j + 1 <= n PROVE r[j + 1] \in DueType
        OBVIOUS
    <2>1. j <= n /\ j + 1 \in 1 .. n /\ (j + 1) - 1 = j
        BY <1>2
    <2>2. r[j] \in DueType /\ st[j + 1] \in StageName /\ r[j + 1] = AfterStage(st[j + 1], r[j])
        BY <1>1, <1>2, <1>6, <2>1
    <2> QED
        BY <2>2, AfterStageType
<1> HIDE DEF Typed
<1>7. \A j \in Nat : j \in Typed
    BY <1>5, <1>6, Induction
<1>8. \A j \in 0 .. n : r[j] \in DueType
    BY <1>2, <1>7 DEF Typed
<1> QED
    BY <1>3, <1>4, <1>8 DEF r, n

----------------------------------------------------------------------------
(* Pipes: the account of what each generator has taken.                    *)

\* The item on its way to a generator; the sink that closes the pipe has had it.
InFlight(k) == IF at = k /\ passing = "item" /\ pipe # "done" THEN <<item>> ELSE <<>>

\* c: the items that each generator has taken.  What it is given is one more at times,
\* and what a stage has made is what the next is given and what is still to be yielded.
GivenTo(c, k) == c[k] \o InFlight(k)
MadeBy(c, j) == GivenTo(c, j + 1) \o toYield[j]

\* The stages after the one that runs are idle, and so is it when it is given something.
PipeControl ==
    /\ \A j \in DOMAIN stages : j > at => toYield[j] = <<>> /\ j \notin ended
    /\ \A j \in DOMAIN stages : at = j /\ pipe = "running" /\ passing # "pull" => toYield[j] = <<>> /\ j \notin ended
    /\ pipe \in {"new", "done"} => at = Sink
    /\ at = 0 => pipe = "running"
    /\ pipe = "new" => passing = "end"

\* A stage that goes on, and one that has returned but not those after it.
IsOpen(c, j) ==
    /\ MadeBy(c, j) = Result(stages[j], c[j], FALSE)
    /\ Remembers(stages[j], c[j], memory[j])
    /\ ~Over(stages[j], c[j], FALSE)
IsClosed(c, j) == MadeBy(c, j) = Due(j) /\ AllDue(j)

AccountTypes(c) ==
    /\ c \in [1 .. Sink -> Seq(PipeItem)]
    /\ item \in PipeItem /\ toYield \in [DOMAIN stages -> Seq(PipeItem)]
OpenStages(c) == \A j \in DOMAIN stages : j \notin ended => IsOpen(c, j)
ClosedStages(c) == \A j \in DOMAIN stages : j \in ended /\ j + 1 \notin ended => IsClosed(c, j)

\* What is at its end has been given all that is due to it.
AtEnd(c) ==
    \A k \in 1 .. Sink : at = k /\ passing = "end" /\ pipe = "running" => c[k] = Due(k - 1) /\ AllDue(k - 1)
IsThrough == pipe = "done" /\ sink = "toArray" => received = Due(Len(stages))

PipeAccount(c) ==
    /\ AccountTypes(c)
    /\ sourced = GivenTo(c, 1) /\ received = c[Sink]
    /\ OpenStages(c) /\ ClosedStages(c)
    /\ AtEnd(c) /\ IsThrough

PipeInv == PipeTypes /\ PipeControl /\ \E c : PipeAccount(c)

LEMMA PipeFacts ==
    ASSUME PipeTypes
    PROVE  /\ Len(stages) \in Nat /\ DOMAIN stages = 1 .. Len(stages) /\ Sink = Len(stages) + 1
           /\ at \in 0 .. Sink /\ at \in Nat /\ ended \subseteq 1 .. Len(stages)
           /\ \A j \in 1 .. Len(stages) : stages[j] \in StageName
           /\ stages \in Seq(StageName) /\ sourced \in Seq(PipeItem) /\ dry \in BOOLEAN
           /\ passing \in {"pull", "item", "end"} /\ pipe \in {"new", "running", "done", "failed"}
<1>1. stages \in Seq(StageName) /\ PipeTypeOK /\ sourced \in Seq(Yieldable)
    BY DEF PipeTypes
<1>2. Len(stages) \in Nat /\ DOMAIN stages = 1 .. Len(stages) /\ Sink = Len(stages) + 1
    BY <1>1 DEF Sink
<1>3. \A j \in 1 .. Len(stages) : stages[j] \in StageName
    BY <1>1, ElementOfSeq
<1>4. /\ at \in 0 .. Sink /\ ended \subseteq 1 .. Len(stages) /\ dry \in BOOLEAN
      /\ passing \in {"pull", "item", "end"} /\ pipe \in {"new", "running", "done", "failed"}
    BY <1>1, <1>2 DEF PipeTypeOK
<1>5. at \in Nat
    BY <1>2, <1>4
<1>6. sourced \in Seq(PipeItem)
    <2>1. Yieldable \subseteq PipeItem
        BY StreamAssumption DEF PipeItem
    <2> QED
        BY <1>1, <2>1, SeqMonotonic
<1> QED
    BY <1>1, <1>2, <1>3, <1>4, <1>5, <1>6

LEMMA DueIs ==
    ASSUME PipeTypes
    PROVE  /\ Due(0) = sourced /\ (AllDue(0) <=> dry)
           /\ \A j \in 0 .. Len(stages) : Due(j) \in Seq(PipeItem) /\ AllDue(j) \in BOOLEAN
           /\ \A j \in 1 .. Len(stages) : /\ Due(j) = Result(stages[j], Due(j - 1), AllDue(j - 1))
                                         /\ AllDue(j) = Over(stages[j], Due(j - 1), AllDue(j - 1))
<1>1. stages \in Seq(StageName) /\ sourced \in Seq(PipeItem) /\ dry \in BOOLEAN
    BY PipeFacts
<1>2. \A j \in 0 .. Len(stages) : PipeRun(stages, sourced, dry)[j] \in DueType
    BY <1>1, RunIs
<1>3. \A j \in 0 .. Len(stages) : Due(j) \in Seq(PipeItem) /\ AllDue(j) \in BOOLEAN
    BY <1>2 DEF Due, AllDue, DueType
<1>4. Due(0) = sourced /\ AllDue(0) = dry
    BY <1>1, RunIs DEF Due, AllDue
<1>5. ASSUME NEW j \in 1 .. Len(stages)
      PROVE  /\ Due(j) = Result(stages[j], Due(j - 1), AllDue(j - 1))
             /\ AllDue(j) = Over(stages[j], Due(j - 1), AllDue(j - 1))
    BY <1>1, RunIs DEF Due, AllDue
<1> QED
    BY <1>3, <1>4, <1>5

LEMMA GivenType ==
    ASSUME PipeTypes, NEW c, AccountTypes(c)
    PROVE  /\ \A k \in 1 .. Sink : /\ c[k] \in Seq(PipeItem) /\ InFlight(k) \in Seq(PipeItem)
                                   /\ GivenTo(c, k) \in Seq(PipeItem) /\ GrowsTo(c[k], GivenTo(c, k))
           /\ \A j \in 1 .. Len(stages) : /\ toYield[j] \in Seq(PipeItem) /\ MadeBy(c, j) \in Seq(PipeItem)
                                         /\ GrowsTo(GivenTo(c, j + 1), MadeBy(c, j))
<1>1. ASSUME NEW k \in 1 .. Sink
      PROVE  /\ c[k] \in Seq(PipeItem) /\ InFlight(k) \in Seq(PipeItem)
             /\ GivenTo(c, k) \in Seq(PipeItem) /\ GrowsTo(c[k], GivenTo(c, k))
    <2>1. c[k] \in Seq(PipeItem)
        BY DEF AccountTypes
    <2>2. InFlight(k) \in Seq(PipeItem)
        <3>1. <<item>> \in Seq(PipeItem) /\ <<>> \in Seq(PipeItem)
            BY DEF AccountTypes
        <3> QED
            BY <3>1 DEF InFlight
    <2>3. GivenTo(c, k) \in Seq(PipeItem) /\ GrowsTo(c[k], GivenTo(c, k))
        BY <2>1, <2>2, ConcatProperties DEF GivenTo, GrowsTo
    <2> QED
        BY <2>1, <2>2, <2>3
<1>2. ASSUME NEW j \in 1 .. Len(stages)
      PROVE  /\ toYield[j] \in Seq(PipeItem) /\ MadeBy(c, j) \in Seq(PipeItem)
             /\ GrowsTo(GivenTo(c, j + 1), MadeBy(c, j))
    <2>1. j + 1 \in 1 .. Sink /\ j \in DOMAIN stages
        BY PipeFacts
    <2>2. toYield[j] \in Seq(PipeItem)
        BY <2>1 DEF AccountTypes
    <2>3. GivenTo(c, j + 1) \in Seq(PipeItem)
        BY <1>1, <2>1
    <2> QED
        BY <2>2, <2>3, ConcatProperties DEF MadeBy, GrowsTo
<1> QED
    BY <1>1, <1>2

\* Whatever has been given to a generator whose own end has not come is due to it.
LEMMA GivenIsDue ==
    ASSUME PipeTypes, NEW c, PipeAccount(c)
    PROVE  \A k \in 0 .. Len(stages) : k + 1 \notin ended => GrowsTo(GivenTo(c, k + 1), Due(k))
<1> DEFINE Held == {k \in Nat : k <= Len(stages) /\ k + 1 \notin ended => GrowsTo(GivenTo(c, k + 1), Due(k))}
<1>1. /\ Len(stages) \in Nat /\ DOMAIN stages = 1 .. Len(stages) /\ Sink = Len(stages) + 1
      /\ \A j \in 1 .. Len(stages) : stages[j] \in StageName
    BY PipeFacts
<1>2. AccountTypes(c) /\ sourced = GivenTo(c, 1) /\ OpenStages(c) /\ ClosedStages(c)
    BY DEF PipeAccount
<1>3. /\ \A k \in 1 .. Sink : /\ c[k] \in Seq(PipeItem) /\ GivenTo(c, k) \in Seq(PipeItem)
                              /\ GrowsTo(c[k], GivenTo(c, k))
      /\ \A j \in 1 .. Len(stages) : MadeBy(c, j) \in Seq(PipeItem) /\ GrowsTo(GivenTo(c, j + 1), MadeBy(c, j))
    BY <1>2, GivenType
<1>4. 0 \in Held
    <2>1. GivenTo(c, 0 + 1) = Due(0)
        BY <1>2, DueIs
    <2>2. GivenTo(c, 0 + 1) \in Seq(PipeItem)
        BY <1>1, <1>3
    <2>3. GrowsTo(GivenTo(c, 0 + 1), Due(0))
        BY <2>1, <2>2, GrowsIsOrder
    <2> QED
        BY <2>3
<1>5. ASSUME NEW i \in Nat, i \in Held PROVE i + 1 \in Held
    <2> DEFINE k == i + 1
    <2> SUFFICES ASSUME k <= Len(stages), k + 1 \notin ended PROVE GrowsTo(GivenTo(c, k + 1), Due(k))
        OBVIOUS
    <2>1. k \in 1 .. Len(stages) /\ k \in 0 .. Len(stages) /\ k - 1 = i /\ k - 1 \in 0 .. Len(stages) /\ i <= Len(stages)
        BY <1>1
    <2>2. i + 1 \notin ended => GrowsTo(GivenTo(c, i + 1), Due(i))
        BY <1>5, <2>1
    <2>3. k \notin ended => GrowsTo(GivenTo(c, k), Due(k - 1))
        BY <2>1, <2>2
    <2> HIDE DEF k, Held
    <2>4. k \in DOMAIN stages /\ k \in 1 .. Sink /\ k + 1 \in 1 .. Sink
        BY <1>1, <2>1
    <2>5. /\ MadeBy(c, k) \in Seq(PipeItem) /\ GrowsTo(GivenTo(c, k + 1), MadeBy(c, k))
          /\ GivenTo(c, k + 1) \in Seq(PipeItem) /\ c[k] \in Seq(PipeItem)
          /\ GivenTo(c, k) \in Seq(PipeItem) /\ GrowsTo(c[k], GivenTo(c, k))
        BY <1>3, <2>1, <2>4
    <2>6. Due(k) \in Seq(PipeItem) /\ Due(k - 1) \in Seq(PipeItem) /\ AllDue(k - 1) \in BOOLEAN
        BY <2>1, DueIs
    <2>7. CASE k \in ended
        <3>1. MadeBy(c, k) = Due(k)
            BY <1>2, <2>4, <2>7 DEF ClosedStages, IsClosed
        <3> QED
            BY <2>5, <3>1
    <2>8. CASE k \notin ended
        <3>1. GrowsTo(c[k], Due(k - 1))
            BY <2>3, <2>5, <2>6, <2>8, GrowsIsOrder
        <3>2. MadeBy(c, k) = Result(stages[k], c[k], FALSE)
            BY <1>2, <2>4, <2>8 DEF OpenStages, IsOpen
        <3>3. stages[k] \in StageName
            BY <1>1, <2>1
        <3>4. GrowsTo(Result(stages[k], c[k], FALSE), Result(stages[k], Due(k - 1), AllDue(k - 1)))
            BY <2>5, <2>6, <3>1, <3>3, StageDelivers
        <3>5. Due(k) = Result(stages[k], Due(k - 1), AllDue(k - 1))
            BY <2>1, DueIs
        <3> QED
            BY <2>5, <2>6, <3>2, <3>4, <3>5, GrowsIsOrder, ZenonT(40)
    <2> QED
        BY <2>7, <2>8
<1> HIDE DEF Held
<1>6. \A k \in Nat : k \in Held
    BY <1>4, <1>5, Induction
<1> QED
    BY <1>1, <1>6 DEF Held

\* What comes out at the end is what is due.
LEMMA PipeInvDelivers == PipeInv => PipeDelivers
<1> SUFFICES ASSUME PipeInv PROVE PipeDelivers
    OBVIOUS
<1>1. PipeTypes
    BY DEF PipeInv
<1>2. PICK c : PipeAccount(c)
    BY DEF PipeInv
<1> DEFINE n == Len(stages)
<1>3. n \in Nat /\ Sink = n + 1 /\ n + 1 \notin ended /\ n \in 0 .. n /\ n + 1 \in 1 .. Sink
    BY <1>1, PipeFacts
<1>4. GrowsTo(GivenTo(c, n + 1), Due(n)) /\ Due(n) \in Seq(PipeItem)
    BY <1>1, <1>2, <1>3, GivenIsDue, DueIs
<1>5. /\ c[n + 1] \in Seq(PipeItem) /\ GivenTo(c, n + 1) \in Seq(PipeItem)
      /\ GrowsTo(c[n + 1], GivenTo(c, n + 1)) /\ received = c[n + 1]
    <2>1. AccountTypes(c) /\ received = c[Sink]
        BY <1>2 DEF PipeAccount
    <2> QED
        BY <1>1, <1>3, <2>1, GivenType
<1>6. received \in Seq(PipeItem) /\ GrowsTo(received, Due(n))
    BY <1>4, <1>5, GrowsIsOrder
<1>7. IsPrefix(received, Due(n))
    BY <1>4, <1>6, GrowsIsPrefix
<1>8. pipe = "done" /\ sink = "toArray" => received = Due(n)
    BY <1>2 DEF PipeAccount, IsThrough
<1> QED
    BY <1>7, <1>8, PromisedIsDue DEF PipeDelivers

----------------------------------------------------------------------------
(* Pipes: the account, where nothing or one book changes.                  *)

LEMMA ControlBegins == PipeTypes /\ PipeInit => PipeControl
<1> SUFFICES ASSUME PipeTypes, PipeInit PROVE PipeControl
    OBVIOUS
<1>1. Len(stages) \in Nat /\ DOMAIN stages = 1 .. Len(stages) /\ Sink = Len(stages) + 1
    BY PipeFacts
<1>2. at = Sink /\ pipe = "new" /\ passing = "end" /\ ended = {}
    BY DEF PipeInit, Sink
<1> QED
    BY <1>1, <1>2 DEF PipeControl

LEMMA ControlKept == PipeTypes /\ PipeControl /\ [PipeNext]_pipeVars => PipeControl'
<1> SUFFICES ASSUME PipeTypes, PipeControl, [PipeNext]_pipeVars PROVE PipeControl'
    OBVIOUS
<1> DEFINE Idle(j) == toYield[j] = <<>> /\ j \notin ended
<1>1. /\ Len(stages) \in Nat /\ DOMAIN stages = 1 .. Len(stages) /\ Sink = Len(stages) + 1
      /\ at \in 0 .. Sink /\ at \in Nat /\ ended \subseteq 1 .. Len(stages)
    BY PipeFacts
<1>2. /\ \A j \in DOMAIN stages : j > at => Idle(j)
      /\ \A j \in DOMAIN stages : at = j /\ pipe = "running" /\ passing # "pull" => Idle(j)
      /\ (pipe \in {"new", "done"} => at = Sink) /\ (at = 0 => pipe = "running") /\ (pipe = "new" => passing = "end")
    BY DEF PipeControl
<1>3. DOMAIN toYield = DOMAIN stages
    BY DEF PipeTypes
<1>4. CASE SinkPulls
    BY <1>1, <1>2, <1>4 DEF SinkPulls, Pull, PipeControl, Sink
<1>5. CASE SinkTakes
    BY <1>1, <1>2, <1>5 DEF SinkTakes, Pull, PipeControl, Sink
<1>6. CASE SinkEnds
    BY <1>1, <1>2, <1>6 DEF SinkEnds, PipeControl, Sink
<1>7. ASSUME NEW i \in Yieldable, SourceYields(i) PROVE PipeControl'
    BY <1>1, <1>2, <1>7 DEF SourceYields, Pass, PipeControl, Sink
<1>8. CASE SourceEnds
    BY <1>1, <1>2, <1>8 DEF SourceEnds, Pass, PipeControl, Sink
<1>9. CASE StagePulled
    <2>1. /\ at \in DOMAIN stages /\ at \in 1 .. Len(stages) /\ pipe = "running" /\ passing = "pull"
          /\ UNCHANGED <<stages, ended, pipe>>
        BY <1>1, <1>9 DEF StagePulled, AtStage
    <2>2. CASE toYield[at] # <<>> \/ at \in ended
        <3>1. at' = at + 1
            BY <1>9, <2>2 DEF StagePulled, Pass
        <3>2. \A j \in DOMAIN stages : j > at => toYield'[j] = toYield[j]
            BY <1>3, <1>9, SMTT(30) DEF StagePulled
        <3> QED
            BY <1>1, <1>2, <2>1, <3>1, <3>2 DEF PipeControl, Sink
    <2>3. CASE toYield[at] = <<>> /\ at \notin ended
        <3>1. at' = at - 1 /\ passing' = "pull" /\ toYield' = toYield
            BY <1>9, <2>3 DEF StagePulled, Pull
        <3> QED
            BY <1>1, <1>2, <2>1, <2>3, <3>1 DEF PipeControl, Sink
    <2> QED
        BY <2>2, <2>3
<1>10. CASE StageGiven
    <2>1. /\ at \in DOMAIN stages /\ at \in 1 .. Len(stages) /\ pipe = "running" /\ passing' = "pull"
          /\ UNCHANGED <<stages, at, pipe>>
        BY <1>1, <1>10 DEF StageGiven, AtStage
    <2>2. \A j \in DOMAIN stages : j > at => toYield'[j] = toYield[j]
        BY <1>1, <1>3, <1>10 DEF StageGiven
    <2>3. \A j \in DOMAIN stages : j > at => (j \in ended' => j \in ended)
        <3>1. ended' \subseteq ended \cup 1 .. at
            BY <1>10 DEF StageGiven
        <3> QED
            BY <1>1, <3>1
    <2> QED
        BY <1>1, <1>2, <2>1, <2>2, <2>3 DEF PipeControl, Sink
<1>11. CASE StageEnds
    <2>1. /\ at \in DOMAIN stages /\ at \in 1 .. Len(stages) /\ pipe = "running" /\ passing' = "pull"
          /\ UNCHANGED <<stages, at, pipe>> /\ ended' = ended \cup {at}
        BY <1>1, <1>11 DEF StageEnds, AtStage
    <2>2. \A j \in DOMAIN stages : j > at => toYield'[j] = toYield[j]
        BY <1>1, <1>3, <1>11 DEF StageEnds
    <2> QED
        BY <1>1, <1>2, <2>1, <2>2 DEF PipeControl, Sink
<1>12. CASE StageThrows
    BY <1>1, <1>2, <1>12 DEF StageThrows, AtStage, PipeControl, Sink
<1>13. CASE UNCHANGED pipeVars
    BY <1>2, <1>13 DEF pipeVars, PipeControl, Sink
<1> QED
    BY <1>4, <1>5, <1>6, <1>7, <1>8, <1>9, <1>10, <1>11, <1>12, <1>13 DEF PipeNext

LEMMA AccountBegins == PipeTypes /\ PipeInit => \E c : PipeAccount(c)
<1> SUFFICES ASSUME PipeTypes, PipeInit PROVE \E c : PipeAccount(c)
    OBVIOUS
<1> DEFINE none == <<>>
           c == [k \in 1 .. Sink |-> none]
<1>1. /\ Len(stages) \in Nat /\ DOMAIN stages = 1 .. Len(stages) /\ Sink = Len(stages) + 1
      /\ \A j \in 1 .. Len(stages) : stages[j] \in StageName
    BY PipeFacts
<1>2. /\ at = Sink /\ pipe = "new" /\ passing = "end" /\ ended = {} /\ item = none
      /\ sourced = none /\ received = none
      /\ memory = [k \in DOMAIN stages |-> none] /\ toYield = [k \in DOMAIN stages |-> none]
    BY DEF PipeInit, Sink
<1>3. none \in Seq(PipeItem) /\ none \in PipeItem /\ none \o none = none
    BY DEF PipeItem
<1>4. \A k \in 1 .. Sink : c[k] = none
    OBVIOUS
<1>5. c \in [1 .. Sink -> Seq(PipeItem)]
    BY <1>3
<1> HIDE DEF c, none
<1>6. \A k \in 1 .. Sink : GivenTo(c, k) = none
    BY <1>2, <1>3, <1>4 DEF GivenTo, InFlight, none
<1>7. AccountTypes(c)
    BY <1>2, <1>3, <1>5 DEF AccountTypes
<1>8. sourced = GivenTo(c, 1) /\ received = c[Sink]
    <2>1. 1 \in 1 .. Sink /\ Sink \in 1 .. Sink
        BY <1>1
    <2> QED
        BY <1>2, <1>4, <1>6, <2>1
<1>9. OpenStages(c)
    <2> SUFFICES ASSUME NEW j \in DOMAIN stages PROVE IsOpen(c, j)
        BY DEF OpenStages
    <2>1. j \in 1 .. Sink /\ j + 1 \in 1 .. Sink /\ stages[j] \in StageName
        BY <1>1
    <2>2. MadeBy(c, j) = none /\ c[j] = none /\ memory[j] = none
        BY <1>2, <1>3, <1>4, <1>6, <2>1 DEF MadeBy
    <2>3. /\ Result(stages[j], none, FALSE) = none /\ ~Over(stages[j], none, FALSE)
          /\ Remembers(stages[j], none, none)
        BY <2>1, StageStarts DEF none
    <2> QED
        BY <2>2, <2>3 DEF IsOpen
<1>10. ClosedStages(c) /\ AtEnd(c) /\ IsThrough
    BY <1>2 DEF ClosedStages, AtEnd, IsThrough
<1>11. PipeAccount(c)
    BY <1>7, <1>8, <1>9, <1>10 DEF PipeAccount
<1> QED
    BY <1>11

\* A stage whose own state and items are as they were is what it was.
LEMMA OpenKept ==
    ASSUME NEW c, NEW d, NEW j, IsOpen(c, j), MadeBy(d, j)' = MadeBy(c, j), d[j] = c[j],
           stages'[j] = stages[j], memory'[j] = memory[j]
    PROVE  IsOpen(d, j)'
    BY DEF IsOpen

LEMMA ClosedKept ==
    ASSUME NEW c, NEW d, NEW j, IsClosed(c, j), MadeBy(d, j)' = MadeBy(c, j),
           UNCHANGED <<stages, sourced, dry>>
    PROVE  IsClosed(d, j)'
    BY DEF IsClosed, Due, AllDue

\* The parts of the account that need not be looked at again.
Books(c) ==
    /\ AccountTypes(c) /\ sourced = GivenTo(c, 1) /\ received = c[Sink]
    /\ OpenStages(c) /\ ClosedStages(c)

LEMMA BooksKept ==
    ASSUME PipeTypes, NEW c, NEW d, Books(c), AccountTypes(d)',
           UNCHANGED <<stages, memory, ended>>,
           UNCHANGED <<sourced, dry>> \/ ended = {},
           sourced' = GivenTo(d, 1)', received' = d[Sink],
           \A j \in DOMAIN stages : MadeBy(d, j)' = MadeBy(c, j) /\ d[j] = c[j]
    PROVE  Books(d)'
<1>1. OpenStages(d)'
    <2> SUFFICES ASSUME NEW j \in DOMAIN stages', j \notin ended' PROVE IsOpen(d, j)'
        BY DEF OpenStages
    <2>1. j \in DOMAIN stages /\ j \notin ended
        OBVIOUS
    <2>2. IsOpen(c, j)
        BY <2>1 DEF Books, OpenStages
    <2>3. MadeBy(d, j)' = MadeBy(c, j) /\ d[j] = c[j] /\ stages'[j] = stages[j] /\ memory'[j] = memory[j]
        BY <2>1
    <2> QED
        BY <2>2, <2>3, OpenKept
<1>2. ClosedStages(d)'
    <2> SUFFICES ASSUME NEW j \in DOMAIN stages', j \in ended', j + 1 \notin ended' PROVE IsClosed(d, j)'
        BY DEF ClosedStages
    <2>1. j \in DOMAIN stages /\ j \in ended /\ j + 1 \notin ended /\ UNCHANGED <<stages, sourced, dry>>
        OBVIOUS
    <2>2. IsClosed(c, j)
        BY <2>1 DEF Books, ClosedStages
    <2>3. MadeBy(d, j)' = MadeBy(c, j)
        BY <2>1
    <2> QED
        BY <2>1, <2>2, <2>3, ClosedKept
<1>3. received' = d[Sink]'
    BY DEF Sink
<1> QED
    BY <1>1, <1>2, <1>3 DEF Books

\* Nothing is given to a generator, and nothing taken.
LEMMA QuietKept ==
    ASSUME PipeTypes, NEW c, Books(c), item' \in PipeItem,
           UNCHANGED <<stages, sourced, memory, toYield, ended, received>>,
           UNCHANGED dry \/ ended = {},
           \A k \in 1 .. Sink : InFlight(k)' = InFlight(k)
    PROVE  Books(c)'
<1>1. DOMAIN stages = 1 .. Len(stages) /\ Sink = Len(stages) + 1 /\ Len(stages) \in Nat
    BY PipeFacts
<1>2. \A k \in 1 .. Sink : GivenTo(c, k)' = GivenTo(c, k)
    BY DEF GivenTo
<1>3. \A j \in DOMAIN stages : MadeBy(c, j)' = MadeBy(c, j)
    <2> TAKE j \in DOMAIN stages
    <2>1. j + 1 \in 1 .. Sink
        BY <1>1
    <2>2. GivenTo(c, j + 1)' = GivenTo(c, j + 1)
        BY <1>2, <2>1
    <2> QED
        BY <2>2 DEF MadeBy
<1>4. AccountTypes(c)'
    BY DEF Books, AccountTypes, Sink
<1>5. sourced' = GivenTo(c, 1)' /\ received' = c[Sink]
    <2>1. 1 \in 1 .. Sink
        BY <1>1
    <2> QED
        BY <1>2, <2>1 DEF Books
<1> QED
    BY <1>3, <1>4, <1>5, BooksKept

\* One stage has taken an item, or has come to its end.
LEMMA OthersKept ==
    ASSUME PipeTypes, NEW c, NEW d, NEW k \in DOMAIN stages, Books(c),
           UNCHANGED <<stages, sourced, dry>>,
           \A j \in DOMAIN stages \ {k} : MadeBy(d, j)' = MadeBy(c, j) /\ d[j] = c[j] /\ memory'[j] = memory[j],
           ended \subseteq ended',
           \A j \in DOMAIN stages \ {k} : j \in ended' /\ j + 1 \notin ended' => j \in ended,
           k \notin ended' => IsOpen(d, k)',
           k \in ended' => IsClosed(d, k)'
    PROVE  OpenStages(d)' /\ ClosedStages(d)'
<1>1. OpenStages(d)'
    <2> SUFFICES ASSUME NEW j \in DOMAIN stages', j \notin ended' PROVE IsOpen(d, j)'
        BY DEF OpenStages
    <2>1. j \in DOMAIN stages /\ j \notin ended
        OBVIOUS
    <2>2. CASE j # k
        <3>1. IsOpen(c, j)
            BY <2>1 DEF Books, OpenStages
        <3>2. MadeBy(d, j)' = MadeBy(c, j) /\ d[j] = c[j] /\ stages'[j] = stages[j] /\ memory'[j] = memory[j]
            BY <2>1, <2>2
        <3> QED
            BY <3>1, <3>2, OpenKept
    <2> QED
        BY <2>2
<1>2. ClosedStages(d)'
    <2> SUFFICES ASSUME NEW j \in DOMAIN stages', j \in ended', j + 1 \notin ended' PROVE IsClosed(d, j)'
        BY DEF ClosedStages
    <2>1. CASE j # k
        <3>1. j \in DOMAIN stages /\ j \in ended /\ j + 1 \notin ended
            BY <2>1
        <3>2. IsClosed(c, j)
            BY <3>1 DEF Books, ClosedStages
        <3>3. MadeBy(d, j)' = MadeBy(c, j)
            BY <2>1, <3>1
        <3> QED
            BY <3>2, <3>3, ClosedKept
    <2> QED
        BY <2>1
<1> QED
    BY <1>1, <1>2

----------------------------------------------------------------------------
(* Pipes: the account, step by step.                                       *)

LEMMA SinkPullsAccounts ==
    ASSUME PipeTypes, PipeControl, NEW c, PipeAccount(c), SinkPulls
    PROVE  PipeAccount(c)'
<1>1. /\ passing = "end" /\ passing' = "pull" /\ item' = <<>> /\ pipe' = "running"
      /\ UNCHANGED <<stages, sourced, memory, toYield, ended, received, dry>>
    BY DEF SinkPulls, Pull, PipeControl
<1>2. \A k \in 1 .. Sink : InFlight(k)' = InFlight(k)
    BY <1>1 DEF InFlight
<1>3. item' \in PipeItem
    BY <1>1 DEF PipeItem
<1>4. Books(c)
    BY DEF PipeAccount, Books
<1>5. Books(c)'
    BY <1>1, <1>2, <1>3, <1>4, QuietKept
<1>6. AtEnd(c)' /\ IsThrough'
    BY <1>1 DEF AtEnd, IsThrough
<1> QED
    BY <1>5, <1>6 DEF PipeAccount, Books

LEMMA SinkEndsAccounts ==
    ASSUME PipeTypes, PipeControl, NEW c, PipeAccount(c), SinkEnds
    PROVE  PipeAccount(c)'
<1>1. /\ at = Sink /\ pipe = "running" /\ passing = "end" /\ pipe' = "done"
      /\ UNCHANGED <<stages, sourced, memory, toYield, ended, received, dry, item, passing>>
    BY DEF SinkEnds
<1>2. \A k \in 1 .. Sink : InFlight(k)' = InFlight(k)
    BY <1>1 DEF InFlight
<1>3. item' \in PipeItem
    BY <1>1 DEF PipeAccount, AccountTypes
<1>4. Books(c)
    BY DEF PipeAccount, Books
<1>5. Books(c)'
    BY <1>1, <1>2, <1>3, <1>4, QuietKept
<1>6. AtEnd(c)'
    BY <1>1 DEF AtEnd
<1>7. IsThrough'
    <2>1. Sink = Len(stages) + 1 /\ Sink \in 1 .. Sink /\ Sink - 1 = Len(stages)
        BY PipeFacts
    <2>2. c[Sink] = Due(Sink - 1)
        BY <1>1, <2>1 DEF PipeAccount, AtEnd
    <2>3. received = Due(Len(stages))
        BY <2>1, <2>2 DEF PipeAccount
    <2>4. received' = Due(Len(stages))'
        BY <1>1, <2>3 DEF Due
    <2> QED
        BY <2>4 DEF IsThrough
<1> QED
    BY <1>5, <1>6, <1>7 DEF PipeAccount, Books

LEMMA StageThrowsAccounts ==
    ASSUME PipeTypes, PipeControl, NEW c, PipeAccount(c), StageThrows
    PROVE  PipeAccount(c)'
<1>1. /\ pipe = "running" /\ pipe' = "failed"
      /\ UNCHANGED <<stages, sourced, memory, toYield, ended, received, dry, item, passing, at>>
    BY DEF StageThrows, AtStage
<1>2. \A k \in 1 .. Sink : InFlight(k)' = InFlight(k)
    BY <1>1 DEF InFlight
<1>3. item' \in PipeItem
    BY <1>1 DEF PipeAccount, AccountTypes
<1>4. Books(c)
    BY DEF PipeAccount, Books
<1>5. Books(c)'
    BY <1>1, <1>2, <1>3, <1>4, QuietKept
<1>6. AtEnd(c)' /\ IsThrough'
    BY <1>1 DEF AtEnd, IsThrough
<1> QED
    BY <1>5, <1>6 DEF PipeAccount, Books

LEMMA SourceEndsAccounts ==
    ASSUME PipeTypes, PipeControl, NEW c, PipeAccount(c), SourceEnds, PipeTypes'
    PROVE  PipeAccount(c)'
<1>1. /\ at = 0 /\ at' = 1 /\ passing' = "end" /\ item' = <<>> /\ dry' = TRUE /\ pipe = "running"
      /\ UNCHANGED <<stages, sourced, memory, toYield, ended, received, pipe>>
    BY DEF SourceEnds, Pass, PipeControl
<1>2. /\ Len(stages) \in Nat /\ DOMAIN stages = 1 .. Len(stages) /\ Sink = Len(stages) + 1
      /\ ended \subseteq 1 .. Len(stages) /\ stages \in Seq(StageName) /\ sourced \in Seq(PipeItem)
    BY PipeFacts
<1>3. ended = {}
    <2>1. \A j \in 1 .. Len(stages) : j \notin ended
        BY <1>1, <1>2 DEF PipeControl
    <2> QED
        BY <1>2, <2>1
<1>4. \A k \in 1 .. Sink : InFlight(k) = <<>> /\ InFlight(k)' = <<>>
    BY <1>1 DEF InFlight
<1>5. item' \in PipeItem
    BY <1>1 DEF PipeItem
<1>6. Books(c)
    BY DEF PipeAccount, Books
<1>7. Books(c)'
    BY <1>1, <1>3, <1>4, <1>5, <1>6, QuietKept
<1>8. c[1] = Due(0)' /\ AllDue(0)'
    <2>1. 1 \in 1 .. Sink
        BY <1>2
    <2>2. c[1] \in Seq(PipeItem)
        BY <1>6, <2>1 DEF Books, AccountTypes
    <2>3. c[1] \o <<>> = c[1]
        BY <2>2, ConcatEmptySeq
    <2>4. sourced = c[1]
        BY <1>4, <1>6, <2>1, <2>3 DEF Books, GivenTo
    <2>5. PipeRun(stages, sourced, TRUE)[0].items = sourced /\ PipeRun(stages, sourced, TRUE)[0].whole = TRUE
        <3>1. TRUE \in BOOLEAN
            OBVIOUS
        <3> QED
            BY <1>2, <3>1, RunIs
    <2> QED
        BY <1>1, <2>4, <2>5 DEF Due, AllDue
<1>9. AtEnd(c)'
    <2> SUFFICES ASSUME NEW k \in 1 .. Sink', (at = k)' PROVE (c[k] = Due(k - 1) /\ AllDue(k - 1))'
        BY DEF AtEnd
    <2>1. k = 1 /\ k - 1 = 0
        BY <1>1
    <2> QED
        BY <1>8, <2>1
<1>10. IsThrough'
    BY <1>1 DEF IsThrough
<1> QED
    BY <1>7, <1>9, <1>10 DEF PipeAccount, Books

LEMMA SinkTakesAccounts ==
    ASSUME PipeTypes, PipeControl, NEW c, PipeAccount(c), SinkTakes
    PROVE  \E d : PipeAccount(d)'
<1>1. PICK d : d = [c EXCEPT ![Sink] = Append(@, item)]
    OBVIOUS
<1>2. /\ Len(stages) \in Nat /\ DOMAIN stages = 1 .. Len(stages) /\ Sink = Len(stages) + 1
    BY PipeFacts
<1>3. /\ at = Sink /\ passing = "item" /\ pipe = "running" /\ received' = Append(received, item)
      /\ UNCHANGED <<stages, sink, memory, toYield, ended, sourced, dry>>
      /\ (passing' = "pull" /\ item' = <<>>) \/ (pipe' = "done" /\ sink = "first" /\ item' = item)
      /\ passing' # "end" /\ (pipe' = "done" => sink' = "first")
    BY DEF SinkTakes, Pull
<1>4. Books(c) /\ AccountTypes(c) /\ c \in [1 .. Sink -> Seq(PipeItem)] /\ item \in PipeItem
    BY DEF PipeAccount, Books, AccountTypes
<1>5. /\ Sink \in 1 .. Sink /\ c[Sink] \in Seq(PipeItem)
      /\ Append(c[Sink], item) \in Seq(PipeItem) /\ Append(c[Sink], item) = c[Sink] \o <<item>>
    <2>1. Sink \in 1 .. Sink
        BY <1>2
    <2>2. c[Sink] \in Seq(PipeItem)
        BY <1>4, <2>1
    <2> QED
        BY <1>4, <2>1, <2>2, AppendProperties, AppendIsConcat
<1>6. /\ d \in [1 .. Sink -> Seq(PipeItem)] /\ d[Sink] = Append(c[Sink], item)
      /\ \A k \in 1 .. Sink : k # Sink => d[k] = c[k]
    BY <1>1, <1>4, <1>5
<1>7. item' \in PipeItem
    <2>1. <<>> \in PipeItem
        BY DEF PipeItem
    <2> QED
        BY <1>3, <1>4, <2>1
<1>8. AccountTypes(d)'
    BY <1>3, <1>4, <1>6, <1>7 DEF AccountTypes, Sink
<1>9. \A k \in 1 .. Sink : GivenTo(d, k)' = GivenTo(c, k)
    <2> TAKE k \in 1 .. Sink
    <2>1. InFlight(k)' = <<>>
        BY <1>3 DEF InFlight
    <2>2. GivenTo(d, k)' = d[k] \o <<>>
        BY <2>1 DEF GivenTo
    <2>3. d[k] \in Seq(PipeItem) /\ d[k] \o <<>> = d[k]
        BY <1>6, ConcatEmptySeq
    <2>4. CASE k = Sink
        <3>1. GivenTo(c, k) = c[k] \o <<item>>
            BY <1>3, <2>4 DEF GivenTo, InFlight
        <3> QED
            BY <1>5, <1>6, <2>2, <2>3, <2>4, <3>1
    <2>5. CASE k # Sink
        <3>1. GivenTo(c, k) = c[k] \o <<>>
            BY <1>3, <2>5 DEF GivenTo, InFlight
        <3> QED
            BY <1>6, <2>2, <2>5, <3>1
    <2> QED
        BY <2>4, <2>5
<1>10. \A j \in DOMAIN stages : MadeBy(d, j)' = MadeBy(c, j) /\ d[j] = c[j]
    <2> TAKE j \in DOMAIN stages
    <2>1. j + 1 \in 1 .. Sink /\ j \in 1 .. Sink /\ j # Sink
        BY <1>2
    <2>2. GivenTo(d, j + 1)' = GivenTo(c, j + 1)
        BY <1>9, <2>1
    <2> QED
        BY <1>3, <1>6, <2>1, <2>2 DEF MadeBy
<1>11. sourced' = GivenTo(d, 1)' /\ received' = d[Sink]
    <2>1. 1 \in 1 .. Sink
        BY <1>2
    <2> QED
        BY <1>3, <1>4, <1>6, <1>9, <2>1 DEF Books
<1>12. Books(d)'
    BY <1>3, <1>4, <1>8, <1>10, <1>11, BooksKept
<1>13. AtEnd(d)' /\ IsThrough'
    BY <1>3 DEF AtEnd, IsThrough
<1>14. PipeAccount(d)'
    BY <1>12, <1>13 DEF PipeAccount, Books
<1> QED
    BY <1>14

LEMMA SourceYieldsAccounts ==
    ASSUME PipeTypes, PipeControl, NEW c, PipeAccount(c), NEW i \in Yieldable, SourceYields(i)
    PROVE  PipeAccount(c)'
<1>1. /\ at = 0 /\ at' = 1 /\ passing' = "item" /\ item' = i /\ sourced' = Append(sourced, i) /\ pipe = "running"
      /\ UNCHANGED <<stages, dry, memory, toYield, ended, received, pipe>>
    BY DEF SourceYields, Pass, PipeControl
<1>2. /\ Len(stages) \in Nat /\ DOMAIN stages = 1 .. Len(stages) /\ Sink = Len(stages) + 1
      /\ ended \subseteq 1 .. Len(stages) /\ sourced \in Seq(PipeItem)
    BY PipeFacts
<1>3. ended = {}
    <2>1. \A j \in 1 .. Len(stages) : j \notin ended
        BY <1>1, <1>2 DEF PipeControl
    <2> QED
        BY <1>2, <2>1
<1>4. i \in PipeItem
    BY StreamAssumption DEF PipeItem
<1>5. Books(c) /\ AccountTypes(c)
    BY DEF PipeAccount, Books
<1>6. AccountTypes(c)'
    BY <1>1, <1>4, <1>5 DEF AccountTypes, Sink
<1>7. \A k \in 1 .. Sink : InFlight(k) = <<>> /\ InFlight(k)' = IF k = 1 THEN <<i>> ELSE <<>>
    BY <1>1 DEF InFlight
<1>8. sourced' = GivenTo(c, 1)'
    <2>1. 1 \in 1 .. Sink
        BY <1>2
    <2>2. c[1] \in Seq(PipeItem)
        BY <1>5, <2>1 DEF AccountTypes
    <2>3. c[1] \o <<>> = c[1] /\ Append(c[1], i) = c[1] \o <<i>>
        BY <1>4, <2>2, ConcatEmptySeq, AppendIsConcat
    <2>4. sourced = c[1]
        BY <1>5, <1>7, <2>1, <2>3 DEF Books, GivenTo
    <2>5. GivenTo(c, 1)' = c[1] \o <<i>>
        BY <1>7, <2>1 DEF GivenTo
    <2> QED
        BY <1>1, <2>3, <2>4, <2>5
<1>9. \A j \in DOMAIN stages : MadeBy(c, j)' = MadeBy(c, j)
    <2> TAKE j \in DOMAIN stages
    <2>1. j + 1 \in 1 .. Sink /\ j + 1 # 1
        BY <1>2
    <2>2. GivenTo(c, j + 1)' = GivenTo(c, j + 1)
        BY <1>7, <2>1 DEF GivenTo
    <2> QED
        BY <1>1, <2>2 DEF MadeBy
<1>10. received' = c[Sink]
    BY <1>1, <1>5 DEF Books
<1>11. Books(c)'
    BY <1>1, <1>3, <1>5, <1>6, <1>8, <1>9, <1>10, BooksKept
<1>12. AtEnd(c)' /\ IsThrough'
    BY <1>1 DEF AtEnd, IsThrough
<1> QED
    BY <1>11, <1>12 DEF PipeAccount, Books

\* A sequence is its first item and the others.
LEMMA HeadAndRest ==
    ASSUME NEW A, NEW s \in Seq(A), s # <<>>
    PROVE  s = <<Head(s)>> \o Tail(s)
<1> DEFINE n == Len(s)
<1>1. n \in Nat /\ n # 0
    BY EmptySeq, LenProperties
<1>2. 1 \in 1 .. Len(s) /\ n \in 1 .. Len(s)
    BY <1>1
<1> HIDE DEF n
<1>3. SubSeq(s, 1, n) = <<s[1]>> \o SubSeq(s, 1 + 1, n)
    BY <1>2, SubSeqRecursiveFirst
<1>4. SubSeq(s, 1, n) = s
    BY SubSeqFull DEF n
<1>5. Tail(s) = SubSeq(s, 1 + 1, n)
    <2>1. Tail(s) = SubSeq(s, 2, n)
        BY TailIsSubSeq DEF n
    <2>2. 2 = 1 + 1
        OBVIOUS
    <2> QED
        BY <2>1, <2>2
<1>6. Head(s) = s[1]
    OBVIOUS
<1> QED
    BY <1>3, <1>4, <1>5, <1>6

LEMMA StagePulledAccounts ==
    ASSUME PipeTypes, PipeControl, NEW c, PipeAccount(c), StagePulled
    PROVE  PipeAccount(c)'
<1>1. /\ Len(stages) \in Nat /\ DOMAIN stages = 1 .. Len(stages) /\ Sink = Len(stages) + 1 /\ at \in Nat
    BY PipeFacts
<1>2. PICK k \in DOMAIN stages : k = at
    BY DEF StagePulled, AtStage
<1>3. /\ pipe = "running" /\ passing = "pull" /\ k \in 1 .. Len(stages)
      /\ UNCHANGED <<stages, sink, memory, ended, sourced, dry, received, pipe>>
    BY <1>1 DEF StagePulled, AtStage
<1>4. Books(c) /\ AccountTypes(c)
    BY DEF PipeAccount, Books
<1>5. IsThrough'
    BY <1>3 DEF IsThrough
<1>6. \A j \in 1 .. Sink : InFlight(j) = <<>>
    BY <1>3 DEF InFlight
<1>7. <<>> \in PipeItem
    BY DEF PipeItem
<1>8. k + 1 \in 1 .. Sink /\ k \in 1 .. Sink /\ k + 1 \notin ended
    <2>1. k + 1 \in DOMAIN stages => k + 1 > at
        BY <1>1, <1>2
    <2>2. k + 1 \in DOMAIN stages => k + 1 \notin ended
        BY <2>1 DEF PipeControl
    <2>3. k + 1 \in ended => k + 1 \in DOMAIN stages
        BY <1>1, PipeFacts
    <2> QED
        BY <1>1, <1>3, <2>2, <2>3
<1>9. CASE toYield[k] = <<>> /\ k \notin ended
    <2>1. passing' = "pull" /\ item' = <<>> /\ toYield' = toYield
        BY <1>2, <1>9 DEF StagePulled, Pull
    <2>2. \A j \in 1 .. Sink : InFlight(j)' = InFlight(j)
        BY <1>6, <2>1 DEF InFlight
    <2>3. Books(c)'
        BY <1>3, <1>4, <1>7, <2>1, <2>2, QuietKept
    <2>4. AtEnd(c)'
        BY <2>1 DEF AtEnd
    <2> QED
        BY <1>5, <2>3, <2>4 DEF PipeAccount, Books
<1>10. CASE toYield[k] = <<>> /\ k \in ended
    <2>1. passing' = "end" /\ item' = <<>> /\ toYield' = toYield /\ at' = k + 1
        BY <1>2, <1>10 DEF StagePulled, Pass
    <2>2. \A j \in 1 .. Sink : InFlight(j)' = InFlight(j)
        BY <1>6, <2>1 DEF InFlight
    <2>3. Books(c)'
        BY <1>3, <1>4, <1>7, <2>1, <2>2, QuietKept
    <2>4. IsClosed(c, k)
        BY <1>4, <1>8, <1>10 DEF Books, ClosedStages
    <2>5. c[k + 1] \in Seq(PipeItem)
        BY <1>4, <1>8 DEF AccountTypes
    <2>6. c[k + 1] \o <<>> = c[k + 1]
        BY <2>5, ConcatEmptySeq
    <2>7. c[k + 1] = Due(k) /\ AllDue(k)
        BY <1>6, <1>8, <1>10, <2>4, <2>6 DEF IsClosed, MadeBy, GivenTo
    <2>8. Due(k)' = Due(k) /\ AllDue(k)' = AllDue(k)
        BY <1>3 DEF Due, AllDue
    <2>9. AtEnd(c)'
        <3> SUFFICES ASSUME NEW j \in 1 .. Sink', (at = j)' PROVE (c[j] = Due(j - 1) /\ AllDue(j - 1))'
            BY DEF AtEnd
        <3>1. j = k + 1 /\ j - 1 = k
            BY <1>3, <2>1
        <3> QED
            BY <2>7, <2>8, <3>1
    <2> QED
        BY <1>5, <2>3, <2>9 DEF PipeAccount, Books
<1>11. CASE toYield[k] # <<>>
    <2> DEFINE h == Head(toYield[k])
               t == Tail(toYield[k])
    <2>1. passing' = "item" /\ item' = h /\ toYield' = [toYield EXCEPT ![k] = t] /\ at' = k + 1
        BY <1>2, <1>11 DEF StagePulled, Pass
    <2>2. toYield[k] \in Seq(PipeItem)
        BY <1>4 DEF AccountTypes
    <2>3. h \in PipeItem /\ t \in Seq(PipeItem) /\ toYield[k] = <<h>> \o t /\ <<h>> \in Seq(PipeItem)
        <3>1. h \in PipeItem /\ t \in Seq(PipeItem)
            BY <1>11, <2>2, HeadTailProperties
        <3>2. toYield[k] = <<h>> \o t
            BY <1>11, <2>2, HeadAndRest
        <3> QED
            BY <3>1, <3>2
    <2> HIDE DEF h, t
    <2>4. toYield'[k] = t /\ \A j \in DOMAIN stages : j # k => toYield'[j] = toYield[j]
        BY <1>4, <2>1 DEF AccountTypes
    <2>5. AccountTypes(c)'
        BY <1>3, <1>4, <2>1, <2>3 DEF AccountTypes, Sink
    <2>6. \A j \in 1 .. Sink : InFlight(j)' = IF j = k + 1 THEN <<h>> ELSE <<>>
        BY <1>3, <2>1 DEF InFlight
    <2>7. \A j \in 1 .. Sink : j # k + 1 => GivenTo(c, j)' = GivenTo(c, j)
        BY <1>6, <2>6 DEF GivenTo
    <2>8. MadeBy(c, k)' = MadeBy(c, k)
        <3>1. c[k + 1] \in Seq(PipeItem)
            BY <1>4, <1>8 DEF AccountTypes
        <3>2. GivenTo(c, k + 1) = c[k + 1] \o <<>> /\ GivenTo(c, k + 1)' = c[k + 1] \o <<h>>
            BY <1>6, <1>8, <2>6 DEF GivenTo
        <3>3. c[k + 1] \o <<>> = c[k + 1] /\ (c[k + 1] \o <<h>>) \o t = c[k + 1] \o (<<h>> \o t)
            <4> DEFINE x == c[k + 1]
                       one == <<h>>
            <4>1. x \in Seq(PipeItem) /\ one \in Seq(PipeItem) /\ t \in Seq(PipeItem)
                BY <2>3, <3>1
            <4> HIDE DEF x, one
            <4>2. x \o <<>> = x /\ (x \o one) \o t = x \o (one \o t)
                BY <4>1, ConcatEmptySeq, ConcatAssociative
            <4> QED
                BY <4>2 DEF x, one
        <3>4. MadeBy(c, k)' = (c[k + 1] \o <<h>>) \o t
            BY <2>4, <3>2 DEF MadeBy
        <3>5. MadeBy(c, k) = c[k + 1] \o (<<h>> \o t)
            BY <2>3, <3>2, <3>3 DEF MadeBy
        <3> QED
            BY <3>3, <3>4, <3>5
    <2>9. \A j \in DOMAIN stages : MadeBy(c, j)' = MadeBy(c, j)
        <3> TAKE j \in DOMAIN stages
        <3>1. CASE j # k
            <4>1. j + 1 \in 1 .. Sink /\ j + 1 # k + 1
                BY <1>1, <1>3, <3>1
            <4>2. GivenTo(c, j + 1)' = GivenTo(c, j + 1)
                BY <2>7, <4>1
            <4> QED
                BY <2>4, <3>1, <4>2 DEF MadeBy
        <3> QED
            BY <2>8, <3>1
    <2>10. sourced' = GivenTo(c, 1)' /\ received' = c[Sink]
        <3>1. 1 \in 1 .. Sink /\ 1 # k + 1
            BY <1>1, <1>3
        <3> QED
            BY <1>3, <1>4, <2>7, <3>1 DEF Books
    <2>11. Books(c)'
        BY <1>3, <1>4, <2>5, <2>9, <2>10, BooksKept
    <2>12. AtEnd(c)'
        BY <2>1 DEF AtEnd
    <2> QED
        BY <1>5, <2>11, <2>12 DEF PipeAccount, Books
<1> QED
    BY <1>9, <1>10, <1>11

LEMMA StageEndsAccounts ==
    ASSUME PipeTypes, PipeControl, NEW c, PipeAccount(c), StageEnds
    PROVE  PipeAccount(c)'
<1>1. /\ Len(stages) \in Nat /\ DOMAIN stages = 1 .. Len(stages) /\ Sink = Len(stages) + 1 /\ at \in Nat
      /\ \A j \in 1 .. Len(stages) : stages[j] \in StageName
    BY PipeFacts
<1>2. PICK k \in DOMAIN stages : k = at
    BY DEF StageEnds, AtStage
<1> DEFINE st == stages[k]
           m == memory[k]
           made == Result(st, c[k], FALSE)
           flushed == Flushed(st, m)
<1>3. /\ pipe = "running" /\ passing = "end" /\ k \in 1 .. Len(stages) /\ k + 1 \in 1 .. Sink /\ k \in 1 .. Sink
      /\ passing' = "pull" /\ ended' = ended \cup {k} /\ toYield' = [toYield EXCEPT ![k] = flushed]
      /\ UNCHANGED <<stages, sink, at, item, memory, sourced, dry, received, pipe>>
      /\ st \in StageName
    BY <1>1, <1>2 DEF StageEnds, AtStage
<1>4. Books(c) /\ AccountTypes(c) /\ c[k] \in Seq(PipeItem) /\ toYield[k] = <<>> /\ k \notin ended
    BY <1>2, <1>3 DEF PipeAccount, Books, AccountTypes, PipeControl
<1>5. c[k] = Due(k - 1) /\ AllDue(k - 1) = TRUE
    <2>1. c[k] = Due(k - 1) /\ AllDue(k - 1)
        BY <1>2, <1>3 DEF PipeAccount, AtEnd
    <2>2. k - 1 \in 0 .. Len(stages)
        BY <1>1, <1>3
    <2>3. AllDue(k - 1) \in BOOLEAN
        BY <2>2, DueIs
    <2> QED
        BY <2>1, <2>3
<1>6. MadeBy(c, k) = made /\ Remembers(st, c[k], m)
    BY <1>4 DEF Books, OpenStages, IsOpen
<1>7. /\ flushed \in Seq(PipeItem)
      /\ Result(st, c[k], TRUE) = made \o flushed
    BY <1>3, <1>4, <1>6, StageFlushes
<1> HIDE DEF flushed, made, m
<1>8. toYield'[k] = flushed /\ \A j \in DOMAIN stages : j # k => toYield'[j] = toYield[j]
    BY <1>3, <1>4 DEF AccountTypes
<1>9. \A j \in 1 .. Sink : InFlight(j) = <<>> /\ InFlight(j)' = <<>>
    BY <1>3 DEF InFlight
<1>10. \A j \in 1 .. Sink : GivenTo(c, j)' = GivenTo(c, j)
    BY <1>9 DEF GivenTo
<1>11. IsClosed(c, k)'
    <2>1. GivenTo(c, k + 1) \in Seq(PipeItem)
        BY <1>3, <1>4, GivenType
    <2>2. GivenTo(c, k + 1) = made
        BY <1>4, <1>6, <2>1, ConcatEmptySeq DEF MadeBy
    <2>3. MadeBy(c, k)' = made \o flushed
        BY <1>3, <1>8, <1>10, <2>2 DEF MadeBy
    <2>4. Due(k) = Result(st, c[k], TRUE)
        BY <1>3, <1>5, DueIs
    <2>5. AllDue(k)
        <3>1. AllDue(k) = Over(st, c[k], TRUE)
            BY <1>3, <1>5, DueIs
        <3> QED
            BY <3>1 DEF Over
    <2>6. Due(k)' = Due(k) /\ AllDue(k)' = AllDue(k)
        BY <1>3 DEF Due, AllDue
    <2> QED
        BY <1>7, <2>3, <2>4, <2>5, <2>6 DEF IsClosed
<1>12. AccountTypes(c)'
    BY <1>3, <1>4, <1>7 DEF AccountTypes, Sink
<1>13. \A j \in DOMAIN stages \ {k} : MadeBy(c, j)' = MadeBy(c, j) /\ c[j] = c[j] /\ memory'[j] = memory[j]
    <2> TAKE j \in DOMAIN stages \ {k}
    <2>1. j + 1 \in 1 .. Sink
        BY <1>1
    <2>2. GivenTo(c, j + 1)' = GivenTo(c, j + 1)
        BY <1>10, <2>1
    <2> QED
        BY <1>3, <1>8, <2>2 DEF MadeBy
<1>14. OpenStages(c)' /\ ClosedStages(c)'
    <2>1. ended \subseteq ended' /\ k \in ended'
        BY <1>3
    <2>2. \A j \in DOMAIN stages \ {k} : j \in ended' /\ j + 1 \notin ended' => j \in ended
        BY <1>3
    <2> QED
        BY <1>3, <1>4, <1>11, <1>13, <2>1, <2>2, OthersKept
<1>15. sourced' = GivenTo(c, 1)' /\ received' = c[Sink]'
    <2>1. 1 \in 1 .. Sink /\ Sink' = Sink
        BY <1>1, <1>3 DEF Sink
    <2> QED
        BY <1>3, <1>4, <1>10, <2>1 DEF Books
<1>16. AtEnd(c)' /\ IsThrough'
    BY <1>3 DEF AtEnd, IsThrough
<1> QED
    BY <1>12, <1>14, <1>15, <1>16 DEF PipeAccount

LEMMA StageGivenAccounts ==
    ASSUME PipeTypes, PipeControl, NEW c, PipeAccount(c), StageGiven
    PROVE  \E d : PipeAccount(d)'
<1>1. /\ Len(stages) \in Nat /\ DOMAIN stages = 1 .. Len(stages) /\ Sink = Len(stages) + 1 /\ at \in Nat
      /\ ended \subseteq 1 .. Len(stages)
      /\ \A j \in 1 .. Len(stages) : stages[j] \in StageName
    BY PipeFacts
<1>2. PICK k \in DOMAIN stages : k = at
    BY DEF StageGiven, AtStage
<1>3. PICK i : i = item
    OBVIOUS
<1>4. PICK s : s = c[k]
    OBVIOUS
<1>5. PICK d : d = [c EXCEPT ![k] = Append(s, i)]
    OBVIOUS
<1> DEFINE st == stages[k]
           m == memory[k]
           made == Made(st, m, i)
<1>6. /\ pipe = "running" /\ passing = "item" /\ passing' = "pull" /\ item' = <<>>
      /\ k \in 1 .. Len(stages) /\ k + 1 \in 1 .. Sink /\ k \in 1 .. Sink /\ st \in StageName
      /\ UNCHANGED <<stages, sink, at, sourced, dry, received, pipe>>
    BY <1>1, <1>2 DEF StageGiven, AtStage
<1>7. /\ memory' = [memory EXCEPT ![k] = made.memory] /\ toYield' = [toYield EXCEPT ![k] = made.yields]
      /\ ended' = IF made.returns THEN ended \cup 1 .. k ELSE ended
    BY <1>2, <1>3 DEF StageGiven
<1>8. /\ Books(c) /\ AccountTypes(c) /\ c \in [1 .. Sink -> Seq(PipeItem)] /\ s \in Seq(PipeItem)
      /\ i \in PipeItem /\ toYield[k] = <<>> /\ k \notin ended
    BY <1>2, <1>3, <1>4, <1>6 DEF PipeAccount, Books, AccountTypes, PipeControl
<1>9. /\ Append(s, i) \in Seq(PipeItem) /\ Append(s, i) = s \o <<i>>
      /\ d \in [1 .. Sink -> Seq(PipeItem)] /\ d[k] = Append(s, i)
      /\ \A j \in 1 .. Sink : j # k => d[j] = c[j]
    <2>1. Append(s, i) \in Seq(PipeItem) /\ Append(s, i) = s \o <<i>>
        BY <1>8, AppendProperties, AppendIsConcat
    <2> QED
        BY <1>5, <1>6, <1>8, <2>1
<1>10. /\ DOMAIN memory = DOMAIN stages /\ toYield \in [DOMAIN stages -> Seq(PipeItem)]
    BY <1>8 DEF PipeTypes, AccountTypes
<1> HIDE DEF made
<1>11. /\ memory'[k] = made.memory /\ toYield'[k] = made.yields
       /\ \A j \in DOMAIN stages : j # k => memory'[j] = memory[j] /\ toYield'[j] = toYield[j]
    BY <1>7, <1>10
<1>12. \A j \in 1 .. Sink : GivenTo(d, j)' = GivenTo(c, j)
    <2> TAKE j \in 1 .. Sink
    <2>1. InFlight(j)' = <<>>
        BY <1>6 DEF InFlight
    <2>2. GivenTo(d, j)' = d[j] \o <<>>
        BY <2>1 DEF GivenTo
    <2>3. d[j] \in Seq(PipeItem) /\ d[j] \o <<>> = d[j]
        BY <1>9, ConcatEmptySeq
    <2>4. CASE j = k
        <3>1. GivenTo(c, j) = s \o <<i>>
            BY <1>2, <1>3, <1>4, <1>6, <2>4 DEF GivenTo, InFlight
        <3> QED
            BY <1>9, <2>2, <2>3, <2>4, <3>1
    <2>5. CASE j # k
        <3>1. GivenTo(c, j) = c[j] \o <<>>
            BY <1>2, <2>5 DEF GivenTo, InFlight
        <3> QED
            BY <1>9, <2>2, <2>5, <3>1
    <2> QED
        BY <2>4, <2>5
<1>13. \A j \in DOMAIN stages \ {k} : MadeBy(d, j)' = MadeBy(c, j) /\ d[j] = c[j] /\ memory'[j] = memory[j]
    <2> TAKE j \in DOMAIN stages \ {k}
    <2>1. j + 1 \in 1 .. Sink /\ j \in 1 .. Sink
        BY <1>1
    <2>2. GivenTo(d, j + 1)' = GivenTo(c, j + 1)
        BY <1>12, <2>1
    <2> QED
        BY <1>9, <1>11, <2>1, <2>2 DEF MadeBy
<1>14. /\ GivenTo(c, k + 1) \in Seq(PipeItem) /\ GivenTo(c, k + 1) = Result(st, s, FALSE)
       /\ Remembers(st, s, m) /\ ~Over(st, s, FALSE)
    <2>1. IsOpen(c, k)
        BY <1>8 DEF Books, OpenStages
    <2>2. GivenTo(c, k + 1) \in Seq(PipeItem)
        BY <1>6, <1>8, GivenType
    <2>3. GivenTo(c, k + 1) \o <<>> = GivenTo(c, k + 1)
        BY <2>2, ConcatEmptySeq
    <2> QED
        BY <1>4, <1>8, <2>1, <2>2, <2>3 DEF IsOpen, MadeBy
<1>15. GivenTo(d, k + 1)' = Result(st, s, FALSE)
    BY <1>6, <1>12, <1>14
<1>16. Consumes(st, s, i, m)
    BY <1>6, <1>8, <1>14, StageConsumes
<1>17. sourced' = GivenTo(d, 1)' /\ received' = d[Sink]'
    <2>1. 1 \in 1 .. Sink /\ Sink \in 1 .. Sink /\ Sink # k /\ Sink' = Sink
        BY <1>1, <1>6 DEF Sink
    <2> QED
        BY <1>6, <1>8, <1>9, <1>12, <2>1 DEF Books
<1>18. AtEnd(d)' /\ IsThrough'
    BY <1>6 DEF AtEnd, IsThrough
<1>19. ASSUME made = Returning, Ends(st, s, i) PROVE PipeAccount(d)'
    <2>1. made.memory = <<>> /\ made.yields = <<>> /\ made.returns = TRUE
        BY <1>19, ReturningFields
    <2>2. ended' = ended \cup 1 .. k /\ toYield'[k] = <<>>
        BY <1>7, <1>11, <2>1
    <2>3. GrowsTo(d[k], Due(k - 1))
        <3>1. k - 1 \in 0 .. Len(stages) /\ (k - 1) + 1 = k
            BY <1>1, <1>6
        <3>2. GrowsTo(GivenTo(c, (k - 1) + 1), Due(k - 1))
            BY <1>8, <3>1, GivenIsDue
        <3>3. GivenTo(c, k) = d[k]
            BY <1>2, <1>3, <1>4, <1>6, <1>9 DEF GivenTo, InFlight
        <3> QED
            BY <3>1, <3>2, <3>3
    <2>4. Due(k - 1) \in Seq(PipeItem) /\ AllDue(k - 1) \in BOOLEAN
        <3>1. k - 1 \in 0 .. Len(stages)
            BY <1>1, <1>6
        <3> QED
            BY <3>1, DueIs
    <2>5. Result(st, d[k], FALSE) = Result(st, s, FALSE) /\ Over(st, d[k], FALSE)
        BY <1>9, <1>19 DEF Ends
    <2>6. /\ Result(st, Due(k - 1), AllDue(k - 1)) = Result(st, d[k], FALSE)
          /\ Over(st, Due(k - 1), AllDue(k - 1))
        <3>1. d[k] \in Seq(PipeItem)
            BY <1>9
        <3> QED
            BY <1>6, <2>3, <2>4, <2>5, <3>1, StageDelivers
    <2>7. Due(k) = Result(st, s, FALSE) /\ AllDue(k)
        BY <1>6, <2>5, <2>6, DueIs
    <2>8. Due(k)' = Due(k) /\ AllDue(k)' = AllDue(k)
        BY <1>6 DEF Due, AllDue
    <2>9. IsClosed(d, k)'
        <3>1. Result(st, s, FALSE) \o <<>> = Result(st, s, FALSE)
            BY <1>14, ConcatEmptySeq
        <3>2. MadeBy(d, k)' = Result(st, s, FALSE) \o <<>>
            BY <1>15, <2>2 DEF MadeBy
        <3> QED
            BY <2>7, <2>8, <3>1, <3>2 DEF IsClosed
    <2>10. OpenStages(d)' /\ ClosedStages(d)'
        <3>1. ended \subseteq ended' /\ k \in ended'
            BY <1>6, <2>2
        <3>2. \A j \in DOMAIN stages \ {k} : j \in ended' /\ j + 1 \notin ended' => j \in ended
            <4> SUFFICES ASSUME NEW j \in DOMAIN stages \ {k}, j \in ended', j + 1 \notin ended' PROVE j \in ended
                OBVIOUS
            <4>1. ~ (j + 1 <= k)
                BY <1>1, <2>2
            <4>2. j \notin 1 .. k
                BY <1>1, <1>6, <4>1
            <4> QED
                BY <2>2, <4>2
        <3> QED
            BY <1>6, <1>8, <1>13, <2>9, <3>1, <3>2, OthersKept
    <2>11. AccountTypes(d)'
        <3>1. <<>> \in PipeItem /\ <<>> \in Seq(PipeItem)
            BY DEF PipeItem
        <3>2. toYield' \in [DOMAIN stages -> Seq(PipeItem)]
            BY <1>7, <1>10, <2>1, <3>1
        <3> QED
            BY <1>6, <1>9, <3>1, <3>2 DEF AccountTypes, Sink
    <2> QED
        BY <1>17, <1>18, <2>10, <2>11 DEF PipeAccount
<1>20. ASSUME NEW out \in Seq(PipeItem), NEW r \in Seq(PipeItem), made = Yielding(out, r), Continues(st, s, i, out, r)
       PROVE  PipeAccount(d)'
    <2>1. made.memory = r /\ made.yields = out /\ made.returns = FALSE
        BY <1>20, YieldingFields
    <2>2. ended' = ended /\ toYield'[k] = out /\ memory'[k] = r
        BY <1>7, <1>11, <2>1
    <2>3. /\ Result(st, d[k], FALSE) = Result(st, s, FALSE) \o out
          /\ Remembers(st, d[k], r) /\ ~Over(st, d[k], FALSE)
        BY <1>9, <1>20 DEF Continues
    <2>4. MadeBy(d, k)' = Result(st, d[k], FALSE)
        BY <1>15, <2>2, <2>3 DEF MadeBy
    <2>5. IsOpen(d, k)'
        BY <1>6, <2>2, <2>3, <2>4 DEF IsOpen
    <2>6. OpenStages(d)' /\ ClosedStages(d)'
        <3>1. ended \subseteq ended' /\ k \notin ended'
            BY <1>8, <2>2
        <3>2. \A j \in DOMAIN stages \ {k} : j \in ended' /\ j + 1 \notin ended' => j \in ended
            BY <2>2
        <3> QED
            BY <1>6, <1>8, <1>13, <2>5, <3>1, <3>2, OthersKept
    <2>7. AccountTypes(d)'
        <3>1. <<>> \in PipeItem
            BY DEF PipeItem
        <3>2. toYield' \in [DOMAIN stages -> Seq(PipeItem)]
            BY <1>7, <1>10, <2>1
        <3> QED
            BY <1>6, <1>9, <3>1, <3>2 DEF AccountTypes, Sink
    <2> QED
        BY <1>17, <1>18, <2>6, <2>7 DEF PipeAccount
<1>21. PipeAccount(d)'
    BY <1>16, <1>19, <1>20 DEF Consumes, made
<1> QED
    BY <1>21

\* The account balances at every step: by the item that its first generator takes or by none.
LEMMA PipeInvKept == PipeInv /\ [PipeNext]_pipeVars => PipeInv'
<1> SUFFICES ASSUME PipeInv, [PipeNext]_pipeVars PROVE PipeInv'
    OBVIOUS
<1>1. PipeTypes /\ PipeControl
    BY DEF PipeInv
<1>2. PipeTypes' /\ PipeControl'
    BY <1>1, PipeTyped2, ControlKept
<1>3. PICK c : PipeAccount(c)
    BY DEF PipeInv
<1>4. \E d : PipeAccount(d)'
    <2>1. CASE SinkPulls
        BY <1>1, <1>3, <2>1, SinkPullsAccounts
    <2>2. CASE SinkTakes
        BY <1>1, <1>3, <2>2, SinkTakesAccounts
    <2>3. CASE SinkEnds
        BY <1>1, <1>3, <2>3, SinkEndsAccounts
    <2>4. ASSUME NEW i \in Yieldable, SourceYields(i) PROVE \E d : PipeAccount(d)'
        BY <1>1, <1>3, <2>4, SourceYieldsAccounts
    <2>5. CASE SourceEnds
        BY <1>1, <1>2, <1>3, <2>5, SourceEndsAccounts
    <2>6. CASE StagePulled
        BY <1>1, <1>3, <2>6, StagePulledAccounts
    <2>7. CASE StageGiven
        BY <1>1, <1>3, <2>7, StageGivenAccounts
    <2>8. CASE StageEnds
        BY <1>1, <1>3, <2>8, StageEndsAccounts
    <2>9. CASE StageThrows
        BY <1>1, <1>3, <2>9, StageThrowsAccounts
    <2>10. CASE UNCHANGED pipeVars
        <3>1. PipeAccount(c)'
            BY <1>3, <2>10 DEF pipeVars, PipeAccount, AccountTypes, OpenStages, ClosedStages, AtEnd, IsThrough,
               IsOpen, IsClosed, MadeBy, GivenTo, InFlight, Due, AllDue, Sink
        <3> QED
            BY <3>1
    <2> QED
        BY <2>1, <2>2, <2>3, <2>4, <2>5, <2>6, <2>7, <2>8, <2>9, <2>10 DEF PipeNext
<1> QED
    BY <1>2, <1>4 DEF PipeInv

LEMMA PipeInvBegins == PipeInit => PipeInv
    BY PipeTyped1, ControlBegins, AccountBegins DEF PipeInv

\* A pipe's sink is given what the stages make of what the source has yielded, item by
\* item and in order, and when the pipe is through all of it: whatever the stages are, as
\* many as they are, whenever each is pulled from or closed.
THEOREM PipesDeliver == PipeSpec => []PipeDelivers
    BY PipeInvBegins, PipeInvKept, PipeInvDelivers, PTL DEF PipeSpec

----------------------------------------------------------------------------
(* The parts side by side.                                                 *)

\* Each step of the toolbox is a step of one part, and stutters in the others.
LEMMA PartsMoveAlone ==
  ASSUME [ToolboxNext]_toolboxVars
  PROVE  /\ [Next]_vars /\ [ScheduleNext]_scheduleVars /\ [FlowNext]_flowVars /\ [ContextsNext]_contexts
         /\ [ProcessNext]_processVars /\ [StreamNext]_streamVars /\ [WaitNext]_waitVars
         /\ [ReaderNext]_readerVars /\ [PipeNext]_pipeVars /\ [CsvNext]_csvVars /\ [ParsesLine]_typingVars
         /\ [StreamViewNext]_streamViewVars
  BY DEF ToolboxNext, toolboxVars

\* Its parts begin as they do by themselves.
LEMMA PartsBegin ==
  ToolboxInit => /\ Init /\ ScheduleInit /\ FlowInit /\ ContextsInit /\ ProcessInit /\ StreamInit /\ WaitInit
                 /\ ReaderInit /\ PipeInit /\ CsvInit /\ TypingInit /\ StreamViewInit
  BY DEF ToolboxInit

\* So every part runs as its own specification says.
LEMMA PartsRun ==
  ToolboxSpec =>
    /\ Init /\ [][Next]_vars
    /\ ScheduleInit /\ [][ScheduleNext]_scheduleVars
    /\ FlowInit /\ [][FlowNext]_flowVars
    /\ ContextsInit /\ [][ContextsNext]_contexts
    /\ ProcessInit /\ [][ProcessNext]_processVars
    /\ StreamInit /\ [][StreamNext]_streamVars
    /\ WaitInit /\ [][WaitNext]_waitVars
    /\ ReaderInit /\ [][ReaderNext]_readerVars
    /\ PipeInit /\ [][PipeNext]_pipeVars
    /\ CsvInit /\ [][CsvNext]_csvVars
    /\ TypingInit /\ [][ParsesLine]_typingVars
    /\ StreamViewInit /\ [][StreamViewNext]_streamViewVars
  BY PartsMoveAlone, PartsBegin, PTL DEF ToolboxSpec

\* Nothing is left over: no second timer of a debounced function, no container or
\* directory of a run that was streamed, no second connection of a dashboard.
THEOREM ToolboxLeavesNothing == ToolboxSpec => []NothingLeftOver
<1>1. OneTimerUnlessReentrant /\ NothingLeftBehind /\ OneStream => NothingLeftOver
  BY DEF NothingLeftOver
<1> QED
  BY <1>1, PartsRun, DebounceKeepsOneTimer, StreamLeavesNothing, ViewKeepsOneStream, PTL

\* Text comes out of the library as it went in, whatever it is and however it arrives:
\* lines of a reader, rows of a table, words of a command line.
THEOREM ToolboxTextArrives == ToolboxSpec => []TextArrives
<1>1. LinesAreWhole /\ CsvRoundTrip /\ WordsArrive => TextArrives
  BY DEF TextArrives
<1> QED
  BY <1>1, PartsRun, LinesStayWhole, RowsAlwaysComeBack, WordsAlwaysArrive, PTL DEF ReaderSpec, CsvSpec, TypingSpec

\* Data goes where it is asked for: a pipe delivers what its stages make of the source,
\* in order and nothing twice, and asks for one more than it takes; a finished command
\* succeeded when it exited with 0; a port that was open in time is found.
THEOREM ToolboxDataArrives == ToolboxSpec => []DataArrives
<1>1. PipeDelivers /\ SuccessIsItsOwn /\ FoundUnlessLate => DataArrives
  BY DEF DataArrives
<1> QED
  BY <1>1, PartsRun, PipesDeliver, CommandSuccessIsItsOwn, PortIsFoundUnlessLate,
     PTL DEF PipeSpec

\* Every part of the toolbox keeps to its types.
THEOREM ToolboxTyped == ToolboxSpec => []ToolboxTypeOK
<1>1. /\ TypeOK /\ ScheduleTypeOK /\ FlowTypeOK /\ ContextsTypeOK /\ ProcessTypeOK /\ StreamTypeOK
      /\ WaitTypeOK /\ ReaderTypeOK /\ PipeTypeOK /\ CsvTypeOK /\ TypingTypeOK /\ StreamViewTypeOK
      => ToolboxTypeOK
  BY DEF ToolboxTypeOK
<1>2. TypingInit => TypingTypeOK
  BY DEF TypingInit, TypingTypeOK
<1>3. TypingTypeOK /\ [ParsesLine]_typingVars => TypingTypeOK'
  BY DEF TypingTypeOK, ParsesLine, typingVars
<1>4. TypingInit /\ [][ParsesLine]_typingVars => []TypingTypeOK
  BY <1>2, <1>3, PTL
<1>5. Init => IInv
  BY InitIInv
<1>6. IInv /\ [Next]_vars => IInv'
  BY NextTypeOK, NextImportsChecked, NextPendingIsNewest, NextCallableIsApproved DEF IInv
<1>7. IInv => TypeOK
  BY DEF IInv
<1>8. Init /\ [][Next]_vars => []TypeOK
  BY <1>5, <1>6, <1>7, PTL
<1> QED
  BY <1>1, <1>4, <1>8, PartsRun, ScheduleTyped, FlowTyped, ContextsTyped, ProcessTyped, StreamTyped,
     WaitTyped, ReaderTyped, PipesTyped, CsvTyped, ViewTyped, PTL DEF ReaderSpec, PipeSpec, CsvSpec

============================================================================

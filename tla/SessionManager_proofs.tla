----------------------- MODULE SessionManager_proofs -----------------------
(***************************************************************************)
(* Proofs about SessionManager, for every number of sessions and every     *)
(* finite set of calls: it implements the audit trail (so what is proved   *)
(* of AuditTrail holds of it), its types, that calls are counted, that no  *)
(* answered call has a timer left, that an answer covers the entries of    *)
(* its call, and that destroyed sessions are final.                        *)
(*                                                                         *)
(* The invariant adds two facts to the properties: the ids handed out are  *)
(* exactly those up to counter (IdsInOrder), which is why a new session    *)
(* never takes the id of one that was destroyed; and a call that was not   *)
(* accepted has nothing running (RunsInSession), so that the log an answer *)
(* counts exists.  For the answers it takes one more: a race is won with a *)
(* value only by code that has ended, so nothing but what it left behind   *)
(* can log once the answer has counted the log (OkIsOver).                 *)
(***************************************************************************)
EXTENDS SessionManager, AuditTrail_proofs, FiniteSetTheorems

\* TypeOK but for the trail's part.
ManagerTypeOK ==
    /\ sessions \subseteq Session
    /\ counter \in 0 .. MaxSessions
    /\ creation \in [Session -> {"none", "mounting", "answered"}]
    /\ executions \in [Session -> Nat]
    /\ totalExecutions \in Nat
    /\ job \in [Request -> Job]
    /\ blocked \in BOOLEAN

IdsInOrder == \A s \in Session : creation[s] = "none" <=> s > counter

\* Of one call: without a session it has no code, no timer and no outcome.
HasSession(j) == j.session = 0 => (j.code # "running" /\ j.timer # "armed" /\ j.race = "open")

RunsInSession == \A r \in Request : HasSession(job[r])

SessionIInv ==
    /\ ManagerTypeOK
    /\ IdsInOrder
    /\ RunsInSession
    /\ CallsAreCounted
    /\ NoTimerOutlivesItsCall

----------------------------------------------------------------------------
(* The sessions implement the trail.                                       *)

LEMMA NextImplementsAuditNext == [Next]_vars => [AuditNext]_auditVars
<1> SUFFICES ASSUME [Next]_vars PROVE [AuditNext]_auditVars
    OBVIOUS
<1>1. CASE Lifecycle
    BY <1>1 DEF Lifecycle, Create, MountEnds, Destroy
<1>2. ASSUME NEW r \in Request, NEW changes \in BOOLEAN, NEW s \in Session,
             s = job[r].session, NEW cut \in Cuts(s), AuditedCall(r, changes, cut)
      PROVE  AuditNext
    <2>1. Log(s, r, cut)
        BY <1>2 DEF AuditedCall
    <2> QED
        BY <2>1 DEF AuditNext, Request
<1>3. ASSUME NEW r \in Request, NEW s \in Session,
             \/ ExecuteUnknown(r, s)
             \/ ExecuteRejected(r, s)
             \/ \E form \in {"once", "expr"} : ExecuteStart(r, s, form)
      PROVE  UNCHANGED auditVars
    BY <1>3 DEF ExecuteUnknown, ExecuteRejected, ExecuteStart
<1>4. ASSUME NEW r \in Request,
             \/ UnauditedChange(r)
             \/ \E outcome \in {"ok", "error"}, leaves \in BOOLEAN : CodeEnds(r, outcome, leaves)
             \/ \E leaves \in BOOLEAN : RunAgain(r, leaves)
             \/ NeverYields(r)
             \/ TimerFires(r)
             \/ Answer(r)
      PROVE  UNCHANGED auditVars
    BY <1>4 DEF UnauditedChange, CodeEnds, RunAgain, NeverYields, TimerFires, Answer
<1>5. CASE Execution
    BY <1>2, <1>3, <1>4, <1>5 DEF Execution
<1>6. CASE Subscribers
    BY <1>6 DEF Subscribers, AuditNext
<1>7. CASE UNCHANGED vars
    BY <1>7 DEF vars
<1> QED
    BY <1>1, <1>5, <1>6, <1>7 DEF Next

\* Whatever sessions and their code do, they log as the abstract trail does.
THEOREM SessionsImplementTrail == Spec => AuditSpec
<1>1. Init => AuditInit
    BY DEF Init
<1> QED
    BY <1>1, NextImplementsAuditNext, PTL DEF Spec, AuditSpec

\* So the server's collection is complete under the manager too, with sessions
\* destroyed and code running on after its timeout.
THEOREM SessionsTrailIsComplete == Spec => []TrailComplete
    BY SessionsImplementTrail, TrailIsComplete, PTL

----------------------------------------------------------------------------
(* Steps that change one call, or none.                                    *)

\* The types of the calls, when one of them changes.
LEMMA JobTyped ==
    ASSUME ManagerTypeOK, NEW r \in Request, NEW j \in Job, job' = [job EXCEPT ![r] = j]
    PROVE  job' \in [Request -> Job]
    BY DEF ManagerTypeOK

\* A step that starts nothing keeps the counts.
LEMMA CountsKept ==
    ASSUME CallsAreCounted, UNCHANGED <<executions, totalExecutions>>,
           \A r \in Request : job'[r].session = job[r].session
    PROVE  CallsAreCounted'
<1>1. \A s \in Session : {r \in Request : job'[r].session = s} = {r \in Request : job[r].session = s}
    OBVIOUS
<1>2. {r \in Request : job'[r].session # 0} = {r \in Request : job[r].session # 0}
    OBVIOUS
<1> QED
    BY <1>1, <1>2 DEF CallsAreCounted, Accepted

\* A step that starts one call, and counts it, keeps them too.
LEMMA CountsStarted ==
    ASSUME ManagerTypeOK, CallsAreCounted, NEW r \in Request, NEW s \in Session,
           job[r].session = 0, job'[r].session = s, Count(s),
           \A q \in Request : q # r => job'[q].session = job[q].session
    PROVE  CallsAreCounted'
<1> DEFINE Calls(z) == {q \in Request : job[q].session = z}
           All == {q \in Request : job[q].session # 0}
<1>1. s # 0
    BY SessionAssumption
<1>2. IsFiniteSet(Request)
    BY ActorAssumption DEF Request
<1>3. \A z \in Session : IsFiniteSet(Calls(z))
    BY <1>2, FS_Subset
<1>4. IsFiniteSet(All)
    BY <1>2, FS_Subset
<1>5. {q \in Request : job'[q].session = s} = Calls(s) \cup {r} /\ r \notin Calls(s)
    BY <1>1
<1>6. \A z \in Session : z # s => {q \in Request : job'[q].session = z} = Calls(z)
    BY SessionAssumption
<1>7. {q \in Request : job'[q].session # 0} = All \cup {r} /\ r \notin All
    BY <1>1
<1>8. Cardinality(Calls(s) \cup {r}) = Cardinality(Calls(s)) + 1
    BY <1>3, <1>5, FS_AddElement
<1>9. Cardinality(All \cup {r}) = Cardinality(All) + 1
    BY <1>4, <1>7, FS_AddElement
<1>10. /\ executions'[s] = executions[s] + 1
       /\ \A z \in Session : z # s => executions'[z] = executions[z]
       /\ totalExecutions' = totalExecutions + 1
    BY DEF Count, ManagerTypeOK
<1>11. \A z \in Session : executions[z] = Cardinality(Calls(z))
    BY DEF CallsAreCounted
<1>12. totalExecutions = Cardinality(All)
    BY DEF CallsAreCounted, Accepted
<1>13. \A z \in Session : executions'[z] = Cardinality({q \in Request : job'[q].session = z})
    BY <1>5, <1>6, <1>8, <1>10, <1>11
<1>14. totalExecutions' = Cardinality({q \in Request : job'[q].session # 0})
    BY <1>7, <1>9, <1>10, <1>12
<1> QED
    BY <1>13, <1>14 DEF CallsAreCounted, Accepted

\* What is left to show of a step that changes call r and nothing else of the
\* manager: the call is still one, of the same session, and if it is answered
\* it has no timer.
LEMMA OneCallChanges ==
    ASSUME SessionIInv, NEW r \in Request, NEW j \in Job, job' = [job EXCEPT ![r] = j],
           j.session = job[r].session, j.answer # "none" => j.timer # "armed", HasSession(j),
           UNCHANGED <<sessions, counter, creation, executions, totalExecutions, blocked>>
    PROVE  SessionIInv'
<1>1. job'[r] = j /\ \A q \in Request : q # r => job'[q] = job[q]
    BY DEF SessionIInv, ManagerTypeOK
<1>2. ManagerTypeOK'
    BY JobTyped DEF SessionIInv, ManagerTypeOK
<1>3. IdsInOrder'
    BY DEF SessionIInv, IdsInOrder
<1>4. CallsAreCounted'
    BY <1>1, CountsKept DEF SessionIInv
<1>5. NoTimerOutlivesItsCall'
    BY <1>1 DEF SessionIInv, NoTimerOutlivesItsCall, Answered
<1>6. RunsInSession'
    BY <1>1 DEF SessionIInv, RunsInSession
<1> QED
    BY <1>2, <1>3, <1>4, <1>5, <1>6 DEF SessionIInv

\* A step that starts call r in session s.
LEMMA OneCallStarts ==
    ASSUME SessionIInv, NEW r \in Request, NEW s \in Session, NEW j \in Job,
           Unsent(r), job' = [job EXCEPT ![r] = j], j.session = s, j.answer = "none",
           Count(s), UNCHANGED <<sessions, counter, creation, blocked>>
    PROVE  SessionIInv'
<1>1. job'[r] = j /\ \A q \in Request : q # r => job'[q] = job[q]
    BY DEF SessionIInv, ManagerTypeOK
<1>2. ManagerTypeOK'
    BY JobTyped DEF SessionIInv, ManagerTypeOK, Count
<1>3. IdsInOrder'
    BY DEF SessionIInv, IdsInOrder
<1>4. job[r].session = 0
    BY DEF Unsent, NoJob
<1>5. CallsAreCounted'
    BY <1>1, <1>4, CountsStarted DEF SessionIInv
<1>6. NoTimerOutlivesItsCall'
    BY <1>1 DEF SessionIInv, NoTimerOutlivesItsCall, Answered
<1>7. RunsInSession'
    <2>1. HasSession(j)
        BY SessionAssumption DEF HasSession
    <2> QED
        BY <1>1, <2>1 DEF SessionIInv, RunsInSession
<1> QED
    BY <1>2, <1>3, <1>5, <1>6, <1>7 DEF SessionIInv

----------------------------------------------------------------------------
(* Every step keeps the invariant.                                         *)

LEMMA LifecycleKeeps == SessionIInv /\ Lifecycle => SessionIInv'
<1> SUFFICES ASSUME SessionIInv, Lifecycle PROVE SessionIInv'
    OBVIOUS
<1>0. ManagerTypeOK /\ IdsInOrder /\ RunsInSession /\ CallsAreCounted /\ NoTimerOutlivesItsCall
    BY DEF SessionIInv
<1>1. ASSUME UNCHANGED <<executions, totalExecutions, job, blocked>>,
             ManagerTypeOK', IdsInOrder'
      PROVE  SessionIInv'
    <2>1. CallsAreCounted'
        BY <1>0, <1>1, CountsKept
    <2>2. NoTimerOutlivesItsCall'
        BY <1>0, <1>1 DEF NoTimerOutlivesItsCall, Answered
    <2>3. RunsInSession'
        BY <1>0, <1>1 DEF RunsInSession
    <2> QED
        BY <1>1, <2>1, <2>2, <2>3 DEF SessionIInv
<1>2. ASSUME NEW mount \in BOOLEAN, Create(mount)
      PROVE  SessionIInv'
    <2>1. /\ counter \in Nat /\ counter' = counter + 1
          /\ counter' \in Session /\ counter' \in 0 .. MaxSessions
        BY <1>0, <1>2, SessionAssumption DEF Create, ManagerTypeOK
    <2>2. /\ creation' \in [Session -> {"none", "mounting", "answered"}]
          /\ creation'[counter'] # "none"
          /\ \A s \in Session : s # counter' => creation'[s] = creation[s]
        BY <1>0, <1>2, <2>1 DEF Create, ManagerTypeOK
    <2>3. ManagerTypeOK'
        BY <1>0, <1>2, <2>1, <2>2 DEF Create, ManagerTypeOK
    <2>4. ASSUME NEW s \in Session
          PROVE  creation'[s] = "none" <=> s > counter'
        <3>1. s \in Nat
            BY SessionAssumption
        <3>2. CASE s = counter'
            BY <2>1, <2>2, <3>2
        <3>3. CASE s # counter'
            BY <1>0, <2>1, <2>2, <3>1, <3>3 DEF IdsInOrder
        <3> QED
            BY <3>2, <3>3
    <2>5. IdsInOrder'
        BY <2>4 DEF IdsInOrder
    <2> QED
        BY <1>1, <1>2, <2>3, <2>5 DEF Create
<1>3. ASSUME NEW s \in Session, MountEnds(s)
      PROVE  SessionIInv'
    <2>1. ManagerTypeOK'
        BY <1>0, <1>3 DEF MountEnds, ManagerTypeOK
    <2>2. IdsInOrder'
        BY <1>0, <1>3 DEF MountEnds, IdsInOrder, ManagerTypeOK
    <2> QED
        BY <1>1, <1>3, <2>1, <2>2 DEF MountEnds
<1>4. ASSUME NEW s \in Session, Destroy(s)
      PROVE  SessionIInv'
    <2>1. ManagerTypeOK'
        BY <1>0, <1>4 DEF Destroy, ManagerTypeOK
    <2>2. IdsInOrder'
        BY <1>0, <1>4 DEF Destroy, IdsInOrder
    <2> QED
        BY <1>1, <1>4, <2>1, <2>2 DEF Destroy
<1> QED
    BY <1>2, <1>3, <1>4 DEF Lifecycle

LEMMA ExecutionKeeps == SessionIInv /\ AuditTypeOK /\ Execution => SessionIInv'
<1> SUFFICES ASSUME SessionIInv, AuditTypeOK, NEW r \in Request,
                    \/ \E s \in Session : \/ ExecuteUnknown(r, s)
                                          \/ ExecuteRejected(r, s)
                                          \/ \E form \in {"once", "expr"} : ExecuteStart(r, s, form)
                    \/ \E changes \in BOOLEAN, s \in Session :
                          /\ s = job[r].session
                          /\ \E cut \in Cuts(s) : AuditedCall(r, changes, cut)
                    \/ UnauditedChange(r)
                    \/ \E outcome \in {"ok", "error"}, leaves \in BOOLEAN : CodeEnds(r, outcome, leaves)
                    \/ \E leaves \in BOOLEAN : RunAgain(r, leaves)
                    \/ NeverYields(r)
                    \/ TimerFires(r)
                    \/ Answer(r)
             PROVE  SessionIInv'
    BY DEF Execution
<1>0. /\ job \in [Request -> Job] /\ job[r] \in Job
      /\ job[r].answer # "none" => job[r].timer # "armed"
      /\ HasSession(job[r])
    BY DEF SessionIInv, ManagerTypeOK, NoTimerOutlivesItsCall, Answered, RunsInSession
<1>1. ASSUME NEW s \in Session, ExecuteUnknown(r, s)
      PROVE  SessionIInv'
    <2> DEFINE j == [NoJob EXCEPT !.answer = "not_found"]
    <2>1. job[r] = NoJob
        BY <1>1 DEF ExecuteUnknown, Unsent
    <2>2. j \in Job /\ j.session = NoJob.session /\ j.timer # "armed" /\ HasSession(j)
        BY DEF Job, NoJob, HasSession
    <2>3. job' = [job EXCEPT ![r] = j]
        BY <1>1, <2>1 DEF ExecuteUnknown
    <2> HIDE DEF j
    <2> QED
        BY <1>1, <2>1, <2>2, <2>3, OneCallChanges DEF ExecuteUnknown
<1>2. ASSUME NEW s \in Session, ExecuteRejected(r, s)
      PROVE  SessionIInv'
    <2> DEFINE j == [NoJob EXCEPT !.session = s, !.race = "error"]
    <2>1. job[r] = NoJob
        BY <1>2 DEF ExecuteRejected, Unsent
    <2>2. j \in Job /\ j.session = s /\ j.answer = "none"
        BY DEF Job, Outcome, NoJob
    <2>3. job' = [job EXCEPT ![r] = j]
        BY <1>2, <2>1 DEF ExecuteRejected
    <2> HIDE DEF j
    <2> QED
        BY <1>2, <2>2, <2>3, OneCallStarts DEF ExecuteRejected
<1>3. ASSUME NEW s \in Session, NEW form \in {"once", "expr"}, ExecuteStart(r, s, form)
      PROVE  SessionIInv'
    <2> DEFINE j == [NoJob EXCEPT !.session = s, !.text = form,
                                  !.code = "running", !.timer = "armed"]
    <2>1. j \in Job /\ j.session = s /\ j.answer = "none"
        BY DEF Job, NoJob
    <2>2. job' = [job EXCEPT ![r] = j]
        BY <1>3 DEF ExecuteStart
    <2> QED
        BY <1>3, <2>1, <2>2, OneCallStarts DEF ExecuteStart
<1>4. ASSUME NEW changes \in BOOLEAN, NEW s \in Session, s = job[r].session,
             NEW cut \in Cuts(s), AuditedCall(r, changes, cut)
      PROVE  SessionIInv'
    <2> DEFINE more == changes /\ cut = NoThrow /\ RunsExpr(r)
               j == [job[r] EXCEPT !.touched = @ \/ more]
    <2>1. j \in Job /\ j.session = job[r].session /\ (j.answer # "none" => j.timer # "armed") /\ HasSession(j)
        BY <1>0 DEF Job, HasSession
    <2>2. job' = [job EXCEPT ![r] = j]
        BY <1>4 DEF AuditedCall
    <2> QED
        BY <1>4, <2>1, <2>2, OneCallChanges DEF AuditedCall
<1>5. ASSUME UnauditedChange(r)
      PROVE  SessionIInv'
    <2> DEFINE j == [job[r] EXCEPT !.touched = TRUE]
    <2>1. j \in Job /\ j.session = job[r].session /\ (j.answer # "none" => j.timer # "armed") /\ HasSession(j)
        BY <1>0 DEF Job, HasSession
    <2>2. job' = [job EXCEPT ![r] = j]
        BY <1>5 DEF UnauditedChange
    <2> QED
        BY <1>5, <2>1, <2>2, OneCallChanges DEF UnauditedChange
<1>6. ASSUME NEW outcome \in {"ok", "error"}, NEW leaves \in BOOLEAN, CodeEnds(r, outcome, leaves)
      PROVE  SessionIInv'
    <2> DEFINE j == [job[r] EXCEPT !.code = "done", !.linger = @ \/ leaves, !.touched = FALSE,
                                   !.race = IF @ = "open" THEN outcome ELSE @]
    <2>1. j \in Job /\ j.session = job[r].session /\ (j.answer # "none" => j.timer # "armed") /\ HasSession(j)
        BY <1>0, <1>6 DEF Job, Outcome, HasSession, CodeEnds
    <2>2. job' = [job EXCEPT ![r] = j]
        BY <1>6 DEF CodeEnds
    <2> QED
        BY <1>6, <2>1, <2>2, OneCallChanges DEF CodeEnds
<1>7. ASSUME NEW leaves \in BOOLEAN, RunAgain(r, leaves)
      PROVE  SessionIInv'
    <2> DEFINE j == [job[r] EXCEPT !.text = "once", !.linger = @ \/ leaves, !.touched = FALSE]
    <2>1. j \in Job /\ j.session = job[r].session /\ (j.answer # "none" => j.timer # "armed") /\ HasSession(j)
        BY <1>0 DEF Job, HasSession
    <2>2. job' = [job EXCEPT ![r] = j]
        BY <1>7 DEF RunAgain
    <2> QED
        BY <1>7, <2>1, <2>2, OneCallChanges DEF RunAgain
<1>8. ASSUME NeverYields(r)
      PROVE  SessionIInv'
    <2>1. ManagerTypeOK' /\ IdsInOrder' /\ RunsInSession' /\ NoTimerOutlivesItsCall'
        BY <1>8 DEF NeverYields, SessionIInv, ManagerTypeOK, IdsInOrder, RunsInSession,
                    NoTimerOutlivesItsCall, Answered
    <2>2. CallsAreCounted'
        BY <1>8, CountsKept DEF NeverYields, SessionIInv
    <2> QED
        BY <2>1, <2>2 DEF SessionIInv
<1>9. ASSUME TimerFires(r)
      PROVE  SessionIInv'
    <2> DEFINE j == [job[r] EXCEPT !.timer = "fired", !.race = "timeout"]
    <2>1. j \in Job /\ j.session = job[r].session /\ (j.answer # "none" => j.timer # "armed") /\ HasSession(j)
        BY <1>0, <1>9 DEF Job, Outcome, HasSession, TimerFires
    <2>2. job' = [job EXCEPT ![r] = j]
        BY <1>9 DEF TimerFires
    <2> QED
        BY <1>9, <2>1, <2>2, OneCallChanges DEF TimerFires
<1>10. ASSUME Answer(r)
       PROVE  SessionIInv'
    <2> DEFINE n == IF job[r].race = "ok" THEN Len(local[job[r].session]) ELSE 0
               j == [job[r] EXCEPT !.answer = job[r].race,
                                   !.timer = IF @ = "armed" THEN "off" ELSE @, !.count = n]
    <2>1. job[r].race # "open"
        BY <1>10 DEF Answer, Settled
    <2>2. job[r].session \in Session
        BY <1>0, <2>1 DEF HasSession, Job
    <2>3. Len(local[job[r].session]) \in Nat
        BY <2>2 DEF AuditTypeOK
    <2>4. n \in Nat
        BY <2>3
    <2> HIDE DEF n
    <2>5. job[r].race \in Outcome
        BY <1>0, <2>1 DEF Job
    <2>6. /\ j \in Job
          /\ j.session = job[r].session /\ j.timer # "armed" /\ HasSession(j)
        BY <1>0, <2>4, <2>5 DEF Job, HasSession
    <2>7. job' = [job EXCEPT ![r] = j]
        BY <1>10 DEF Answer, n
    <2> QED
        BY <1>10, <2>6, <2>7, OneCallChanges DEF Answer
<1> QED
    BY <1>1, <1>2, <1>3, <1>4, <1>5, <1>6, <1>7, <1>8, <1>9, <1>10

LEMMA OthersKeep == SessionIInv /\ UNCHANGED managerVars => SessionIInv'
<1> SUFFICES ASSUME SessionIInv, UNCHANGED managerVars PROVE SessionIInv'
    OBVIOUS
<1>1. CallsAreCounted'
    BY CountsKept DEF SessionIInv, managerVars
<1> QED
    BY <1>1 DEF SessionIInv, ManagerTypeOK, IdsInOrder, RunsInSession, NoTimerOutlivesItsCall,
                Answered, managerVars

LEMMA InitSessionIInv == Init => SessionIInv
<1> SUFFICES ASSUME Init PROVE SessionIInv
    OBVIOUS
<1>1. NoJob \in Job
    BY DEF NoJob, Job
<1>2. ManagerTypeOK
    <2>1. job \in [Request -> Job]
        BY <1>1 DEF Init
    <2>2. counter \in 0 .. MaxSessions
        BY SessionAssumption DEF Init
    <2>3. executions \in [Session -> Nat] /\ creation \in [Session -> {"none", "mounting", "answered"}]
        BY DEF Init
    <2> QED
        BY <2>1, <2>2, <2>3 DEF Init, ManagerTypeOK
<1>3. IdsInOrder
    BY SessionAssumption DEF Init, IdsInOrder
<1>4. RunsInSession
    BY DEF Init, RunsInSession, HasSession, NoJob
<1>5. NoTimerOutlivesItsCall
    BY DEF Init, NoTimerOutlivesItsCall, NoJob
<1>6. CallsAreCounted
    <2>1. \A s \in Session : {r \in Request : job[r].session = s} = {}
        BY SessionAssumption DEF Init, NoJob
    <2>2. {r \in Request : job[r].session # 0} = {}
        BY DEF Init, NoJob
    <2> QED
        BY <2>1, <2>2, FS_EmptySet DEF Init, CallsAreCounted, Accepted
<1> QED
    BY <1>2, <1>3, <1>4, <1>5, <1>6 DEF SessionIInv

LEMMA NextKeeps == SessionIInv /\ AuditTypeOK /\ [Next]_vars => SessionIInv'
<1>1. Next => Lifecycle \/ Execution \/ UNCHANGED managerVars
    BY DEF Next, Subscribers
<1>2. UNCHANGED vars => UNCHANGED managerVars
    BY DEF vars
<1> QED
    BY <1>1, <1>2, LifecycleKeeps, ExecutionKeeps, OthersKeep

----------------------------------------------------------------------------

\* The trail's types hold of the manager's runs, and SessionIInv with them.
THEOREM SessionInvariant == Spec => [](SessionIInv /\ AuditTypeOK)
<1>1. Spec => []AuditTypeOK
    BY SessionsImplementTrail, TrailTyped, PTL
<1> QED
    BY <1>1, InitSessionIInv, NextKeeps, PTL DEF Spec

\* Every variable of the manager and of its trail keeps its type.
THEOREM SessionsTyped == Spec => []TypeOK
<1>1. SessionIInv /\ AuditTypeOK => TypeOK
    BY DEF SessionIInv, ManagerTypeOK, TypeOK
<1> QED
    BY <1>1, SessionInvariant, PTL

\* Each accepted call is counted once in its session and once in the server.
THEOREM SessionsCallsCounted == Spec => []CallsAreCounted
<1>1. SessionIInv => CallsAreCounted
    BY DEF SessionIInv
<1> QED
    BY <1>1, SessionInvariant, PTL

\* No answered call has a timer that could still fire.
THEOREM SessionsNoTimerLeft == Spec => []NoTimerOutlivesItsCall
<1>1. SessionIInv => NoTimerOutlivesItsCall
    BY DEF SessionIInv
<1> QED
    BY <1>1, SessionInvariant, PTL

\* A destroyed session never comes back and accepts no further call.
THEOREM SessionsDestroyedIsFinal == Spec => DestroyedIsFinal
<1> DEFINE Final == \A s \in Session : (creation[s] # "none" /\ s \notin sessions) =>
                        /\ s \notin sessions'
                        /\ executions'[s] = executions[s]
<1>1. ASSUME SessionIInv, Next
      PROVE  Final
    <2> SUFFICES ASSUME NEW s \in Session, creation[s] # "none", s \notin sessions
                 PROVE  s \notin sessions' /\ executions'[s] = executions[s]
        OBVIOUS
    <2>1. s \in Nat /\ counter \in Nat /\ s <= counter
        BY <1>1, SessionAssumption DEF SessionIInv, ManagerTypeOK, IdsInOrder
    <2>2. CASE Lifecycle
        BY <2>1, <2>2 DEF Lifecycle, Create, MountEnds, Destroy
    <2>3. ASSUME NEW r \in Request, NEW z \in Session, z \in sessions, Count(z)
          PROVE  executions'[s] = executions[s]
        BY <1>1, <2>3 DEF Count, SessionIInv, ManagerTypeOK
    <2>4. CASE Execution
        <3>1. PICK r \in Request :
                    \/ UNCHANGED <<sessions, executions>>
                    \/ \E z \in Session : /\ z \in sessions /\ Count(z)
                                           /\ UNCHANGED sessions
            BY <2>4 DEF Execution, ExecuteUnknown, ExecuteRejected, ExecuteStart, AuditedCall,
                        UnauditedChange, CodeEnds, RunAgain, NeverYields, TimerFires, Answer
        <3> QED
            BY <2>3, <3>1
    <2>5. CASE UNCHANGED managerVars
        BY <2>5 DEF managerVars
    <2> QED
        BY <1>1, <2>2, <2>4, <2>5 DEF Next, Subscribers
<1>2. SessionIInv /\ [Next]_vars => [Final]_vars
    BY <1>1
<1> QED
    BY <1>2, SessionInvariant, PTL DEF Spec, DestroyedIsFinal

----------------------------------------------------------------------------
(* What an answer covers.                                                  *)

\* Of one call: who answers, or will answer, a value has run to its end.
OkIsOver(j) ==
    /\ j.answer = "ok" => j.race = "ok"
    /\ j.race = "ok" => j.code = "done"

Covers(r, j) ==
    (j.answer = "ok" /\ ~ j.linger) =>
        \A n \in DOMAIN local[j.session] : local[j.session][n].by = r => n <= j.count

CoverIInv == \A r \in Request : OkIsOver(job[r]) /\ Covers(r, job[r])

\* A step that changes call r, logging nothing.
LEMMA OneCallCovers ==
    ASSUME ManagerTypeOK, CoverIInv, NEW r \in Request, NEW j, job' = [job EXCEPT ![r] = j],
           UNCHANGED local, OkIsOver(j), Covers(r, j)
    PROVE  CoverIInv'
<1>1. job'[r] = j /\ \A q \in Request : q # r => job'[q] = job[q]
    BY DEF ManagerTypeOK
<1>2. ASSUME NEW q \in Request PROVE OkIsOver(job'[q]) /\ Covers(q, job'[q])
    <2>1. CASE q = r
        BY <1>1, <2>1
    <2>2. CASE q # r
        BY <1>1, <2>2 DEF CoverIInv
    <2> QED
        BY <2>1, <2>2
<1> QED
    BY <1>2 DEF CoverIInv, OkIsOver, Covers

\* Nor does one that leaves the answer and its count as they are.
LEMMA QuietCallCovers ==
    ASSUME ManagerTypeOK, CoverIInv, NEW r \in Request, NEW j, job' = [job EXCEPT ![r] = j],
           UNCHANGED local, OkIsOver(j),
           j.session = job[r].session, j.answer = job[r].answer, j.count = job[r].count,
           job[r].linger => j.linger
    PROVE  CoverIInv'
<1>1. Covers(r, j)
    BY DEF CoverIInv, Covers
<1> QED
    BY <1>1, OneCallCovers

\* A call that is answered a value and left nothing behind logs no more.
LEMMA AuditedCallCovers ==
    ASSUME SessionIInv, AuditTypeOK, CoverIInv, NEW r \in Request, NEW changes \in BOOLEAN,
           job[r].session \in Session, NEW cut \in Cuts(job[r].session),
           AuditedCall(r, changes, cut)
    PROVE  CoverIInv'
<1> DEFINE s == job[r].session
           more == changes /\ cut = NoThrow /\ RunsExpr(r)
           e == [session |-> s, by |-> r, n |-> Len(local[s]) + 1]
           j == [job[r] EXCEPT !.touched = @ \/ more]
<1>1. job \in [Request -> Job] /\ job[r] \in Job
    BY DEF SessionIInv, ManagerTypeOK
<1>2. /\ j.session = job[r].session /\ j.answer = job[r].answer /\ j.count = job[r].count
      /\ j.linger = job[r].linger /\ j.code = job[r].code /\ j.race = job[r].race
    BY <1>1 DEF Job
<1>3. job' = [job EXCEPT ![r] = j]
    BY DEF AuditedCall
<1>4. local' = [local EXCEPT ![s] = Append(@, e)]
    BY DEF AuditedCall, Log
<1>5. e.by = r
    OBVIOUS
<1>6. local \in [Session -> Seq(Entry)] /\ local[s] \in Seq(Entry)
    BY DEF AuditTypeOK
<1> HIDE DEF e, j
<1>7. job'[r] = j /\ \A q \in Request : q # r => job'[q] = job[q]
    BY <1>1, <1>3
<1>8. /\ \A z \in Session : z # s => local'[z] = local[z]
      /\ local'[s] = Append(local[s], e)
    BY <1>4, <1>6
<1>9. /\ DOMAIN local'[s] = 1 .. Len(local[s]) + 1 /\ local'[s][Len(local[s]) + 1] = e
      /\ \A n \in 1 .. Len(local[s]) : local'[s][n] = local[s][n]
      /\ DOMAIN local[s] = 1 .. Len(local[s]) /\ Len(local[s]) \in Nat
    BY <1>6, <1>8
<1>10. ~ (job[r].answer = "ok" /\ ~ job[r].linger)
    BY DEF AuditedCall, Alive, CoverIInv, OkIsOver
<1>11. ASSUME NEW q \in Request
       PROVE  OkIsOver(job'[q]) /\ Covers(q, job[q])
    <2>1. OkIsOver(job[q]) /\ Covers(q, job[q])
        BY DEF CoverIInv
    <2>2. CASE q = r
        BY <1>2, <1>7, <2>1, <2>2 DEF OkIsOver
    <2>3. CASE q # r
        BY <1>7, <2>1, <2>3
    <2> QED
        BY <2>1, <2>2, <2>3
<1>12. ASSUME NEW q \in Request, job'[q].answer = "ok", ~ job'[q].linger,
              NEW n \in DOMAIN local'[job'[q].session], local'[job'[q].session][n].by = q
       PROVE  n <= job'[q].count
    <2>1. q # r
        BY <1>2, <1>7, <1>10, <1>12
    <2>2. job'[q] = job[q] /\ job[q] \in Job /\ Covers(q, job[q])
        BY <1>1, <1>7, <1>11, <2>1
    <2>3. CASE job[q].session = s
        <3>1. n # Len(local[s]) + 1
            BY <1>5, <1>9, <1>12, <2>1, <2>2, <2>3
        <3>2. n \in DOMAIN local[s] /\ local[s][n].by = q
            BY <1>9, <1>12, <2>2, <2>3, <3>1
        <3> QED
            BY <1>12, <2>2, <2>3, <3>2 DEF Covers
    <2>4. CASE job[q].session # s
        <3>1. job[q].session \in Session
            <4>1. job[q].race = "ok"
                BY <1>11, <1>12, <2>2 DEF OkIsOver
            <4>2. job[q].session # 0
                BY <4>1 DEF SessionIInv, RunsInSession, HasSession
            <4> QED
                BY <2>2, <4>2 DEF Job
        <3>2. local'[job[q].session] = local[job[q].session]
            BY <1>8, <2>4, <3>1
        <3> QED
            BY <1>12, <2>2, <3>2 DEF Covers
    <2> QED
        BY <2>3, <2>4
<1> QED
    BY <1>11, <1>12 DEF CoverIInv, OkIsOver, Covers

LEMMA ExecutionCovers == SessionIInv /\ AuditTypeOK /\ CoverIInv /\ Execution => CoverIInv'
<1> SUFFICES ASSUME SessionIInv, AuditTypeOK, CoverIInv, NEW r \in Request,
                    \/ \E s \in Session : \/ ExecuteUnknown(r, s)
                                          \/ ExecuteRejected(r, s)
                                          \/ \E form \in {"once", "expr"} : ExecuteStart(r, s, form)
                    \/ \E changes \in BOOLEAN, s \in Session :
                          /\ s = job[r].session
                          /\ \E cut \in Cuts(s) : AuditedCall(r, changes, cut)
                    \/ UnauditedChange(r)
                    \/ \E outcome \in {"ok", "error"}, leaves \in BOOLEAN : CodeEnds(r, outcome, leaves)
                    \/ \E leaves \in BOOLEAN : RunAgain(r, leaves)
                    \/ NeverYields(r)
                    \/ TimerFires(r)
                    \/ Answer(r)
             PROVE  CoverIInv'
    BY DEF Execution
<1>0. /\ ManagerTypeOK /\ job[r] \in Job /\ OkIsOver(job[r])
      /\ job[r].answer # "none" => job[r].timer # "armed"
    BY DEF SessionIInv, ManagerTypeOK, CoverIInv, NoTimerOutlivesItsCall, Answered
<1>1. ASSUME NEW s \in Session, ExecuteUnknown(r, s)
      PROVE  CoverIInv'
    <2> DEFINE j == [job[r] EXCEPT !.answer = "not_found"]
    <2>1. OkIsOver(j) /\ j.answer # "ok"
        BY <1>0 DEF OkIsOver, Job
    <2>2. job' = [job EXCEPT ![r] = j] /\ UNCHANGED local
        BY <1>1 DEF ExecuteUnknown, auditVars
    <2> HIDE DEF j
    <2> QED
        BY <1>0, <2>1, <2>2, OneCallCovers DEF Covers
<1>2. ASSUME NEW s \in Session, ExecuteRejected(r, s)
      PROVE  CoverIInv'
    <2> DEFINE j == [NoJob EXCEPT !.session = s, !.race = "error"]
    <2>1. OkIsOver(j) /\ j.answer # "ok"
        BY DEF OkIsOver, NoJob
    <2>2. job' = [job EXCEPT ![r] = j] /\ UNCHANGED local
        BY <1>2 DEF ExecuteRejected, Unsent, auditVars
    <2> HIDE DEF j
    <2> QED
        BY <1>0, <2>1, <2>2, OneCallCovers DEF Covers
<1>3. ASSUME NEW s \in Session, NEW form \in {"once", "expr"}, ExecuteStart(r, s, form)
      PROVE  CoverIInv'
    <2> DEFINE j == [NoJob EXCEPT !.session = s, !.text = form,
                                  !.code = "running", !.timer = "armed"]
    <2>1. OkIsOver(j) /\ j.answer # "ok"
        BY DEF OkIsOver, NoJob
    <2>2. job' = [job EXCEPT ![r] = j] /\ UNCHANGED local
        BY <1>3 DEF ExecuteStart, auditVars
    <2> HIDE DEF j
    <2> QED
        BY <1>0, <2>1, <2>2, OneCallCovers DEF Covers
<1>4. ASSUME NEW changes \in BOOLEAN, NEW s \in Session, s = job[r].session,
             NEW cut \in Cuts(s), AuditedCall(r, changes, cut)
      PROVE  CoverIInv'
    BY <1>4, AuditedCallCovers
<1>5. ASSUME UnauditedChange(r)
      PROVE  CoverIInv'
    <2> DEFINE j == [job[r] EXCEPT !.touched = TRUE]
    <2>1. /\ OkIsOver(j) /\ j.session = job[r].session /\ j.answer = job[r].answer
          /\ j.count = job[r].count /\ j.linger = job[r].linger
        BY <1>0 DEF OkIsOver, Job
    <2>2. job' = [job EXCEPT ![r] = j] /\ UNCHANGED local
        BY <1>5 DEF UnauditedChange, auditVars
    <2> HIDE DEF j
    <2> QED
        BY <1>0, <2>1, <2>2, QuietCallCovers
<1>6. ASSUME NEW outcome \in {"ok", "error"}, NEW leaves \in BOOLEAN, CodeEnds(r, outcome, leaves)
      PROVE  CoverIInv'
    <2> DEFINE j == [job[r] EXCEPT !.code = "done", !.linger = @ \/ leaves, !.touched = FALSE,
                                   !.race = IF @ = "open" THEN outcome ELSE @]
    <2>1. /\ OkIsOver(j) /\ j.session = job[r].session /\ j.answer = job[r].answer
          /\ j.count = job[r].count /\ (job[r].linger => j.linger)
        BY <1>0, <1>6 DEF OkIsOver, Job
    <2>2. job' = [job EXCEPT ![r] = j] /\ UNCHANGED local
        BY <1>6 DEF CodeEnds, auditVars
    <2> HIDE DEF j
    <2> QED
        BY <1>0, <2>1, <2>2, QuietCallCovers
<1>7. ASSUME NEW leaves \in BOOLEAN, RunAgain(r, leaves)
      PROVE  CoverIInv'
    <2> DEFINE j == [job[r] EXCEPT !.text = "once", !.linger = @ \/ leaves, !.touched = FALSE]
    <2>1. /\ OkIsOver(j) /\ j.session = job[r].session /\ j.answer = job[r].answer
          /\ j.count = job[r].count /\ (job[r].linger => j.linger)
        BY <1>0 DEF OkIsOver, Job
    <2>2. job' = [job EXCEPT ![r] = j] /\ UNCHANGED local
        BY <1>7 DEF RunAgain, auditVars
    <2> HIDE DEF j
    <2> QED
        BY <1>0, <2>1, <2>2, QuietCallCovers
<1>8. ASSUME NeverYields(r)
      PROVE  CoverIInv'
    BY <1>8 DEF NeverYields, auditVars, CoverIInv, OkIsOver, Covers
<1>9. ASSUME TimerFires(r)
      PROVE  CoverIInv'
    <2> DEFINE j == [job[r] EXCEPT !.timer = "fired", !.race = "timeout"]
    <2>1. /\ OkIsOver(j) /\ j.session = job[r].session /\ j.answer = job[r].answer
          /\ j.count = job[r].count /\ j.linger = job[r].linger
        BY <1>0, <1>9 DEF OkIsOver, Job, TimerFires
    <2>2. job' = [job EXCEPT ![r] = j] /\ UNCHANGED local
        BY <1>9 DEF TimerFires, auditVars
    <2> HIDE DEF j
    <2> QED
        BY <1>0, <2>1, <2>2, QuietCallCovers
<1>10. ASSUME Answer(r)
       PROVE  CoverIInv'
    <2> DEFINE j == [job[r] EXCEPT !.answer = job[r].race,
                                   !.timer = IF @ = "armed" THEN "off" ELSE @,
                                   !.count = IF job[r].race = "ok" THEN Len(local[job[r].session])
                                                                   ELSE 0]
    <2>1. /\ OkIsOver(j) /\ j.session = job[r].session /\ j.answer = job[r].race
          /\ job[r].race = "ok" => j.count = Len(local[j.session])
        BY <1>0 DEF OkIsOver, Job
    <2>2. job' = [job EXCEPT ![r] = j] /\ UNCHANGED local
        BY <1>10 DEF Answer, auditVars
    <2> HIDE DEF j
    <2>3. Covers(r, j)
        <3> SUFFICES ASSUME j.answer = "ok", NEW n \in DOMAIN local[j.session] PROVE n <= j.count
            BY DEF Covers
        <3>1. job[r].race = "ok" /\ j.session # 0
            BY <2>1 DEF SessionIInv, RunsInSession, HasSession
        <3>2. j.session \in Session
            BY <1>0, <2>1, <3>1 DEF Job
        <3>3. local[j.session] \in Seq(Entry)
            BY <3>2 DEF AuditTypeOK
        <3> QED
            BY <2>1, <3>1, <3>3
    <2> QED
        BY <1>0, <2>1, <2>2, <2>3, OneCallCovers
<1> QED
    BY <1>1, <1>2, <1>3, <1>4, <1>5, <1>6, <1>7, <1>8, <1>9, <1>10

LEMMA NextCoverIInv ==
    SessionIInv /\ AuditTypeOK /\ CoverIInv /\ [Next]_vars => CoverIInv'
<1>1. CoverIInv /\ UNCHANGED <<local, job>> => CoverIInv'
    BY DEF CoverIInv, OkIsOver, Covers
<1>2. Next => Execution \/ UNCHANGED <<local, job>>
    BY DEF Next, Lifecycle, Create, MountEnds, Destroy, Subscribers, Connect, Disconnect, Cleanup,
           StartPaging, QueryPage, auditVars, managerVars
<1>3. UNCHANGED vars => UNCHANGED <<local, job>>
    BY DEF vars, auditVars, managerVars
<1> QED
    BY <1>1, <1>2, <1>3, ExecutionCovers

\* The auditEntries of an answer covers every entry the call logged, other
\* calls logging meanwhile or not (handler.ts:153, read after the await).
THEOREM SessionsAnswerCovers == Spec => []AnswerCoversItsEntries
<1>1. Init => CoverIInv
    BY DEF Init, CoverIInv, OkIsOver, Covers, NoJob
<1>2. CoverIInv => AnswerCoversItsEntries
    BY DEF CoverIInv, Covers, AnswerCoversItsEntries
<1> QED
    BY <1>1, <1>2, SessionInvariant, NextCoverIInv, PTL DEF Spec

----------------------------------------------------------------------------
(* What is proved of the trail holds of the sessions.                      *)

\* Whatever sessions come and go, a subscriber of /events misses only entries
\* whose emission an earlier subscriber's failing write ended.
THEOREM SessionsFeedMissesOnlyAborted == Spec => []FeedMissesOnlyAborted
    BY SessionsImplementTrail, TrailFeedMissesOnlyAborted, PTL

\* And a client that pages through admin.audit.query misses nothing.
THEOREM SessionsPagingMissesNothing == Spec => []PagingMissesNothing
    BY SessionsImplementTrail, TrailPagingMissesNothing, PTL

=============================================================================

---------------------------- MODULE Server_proofs ----------------------------
(***************************************************************************)
(* Proofs about the two parts of MC_Server, for any number of sinks and    *)
(* entries, calls, sessions and configurations.                            *)
(*                                                                         *)
(* AgentRun: types, and the invariants the run of TLC checks.              *)
(* TrailInOrder is about what was received; it is inductive with what is   *)
(* still on its way: the entries in the channel continue the trail, and a  *)
(* result or an error is the last message of a worker that has exited      *)
(* (OnItsWay).  ResultIsHonest reads errorMessage when it settles the      *)
(* run, so it needs to know what that may hold until then (Unsettled); and *)
(* a directory is kept only where no process was started (Unwritten).      *)
(*                                                                         *)
(* Rpc: the server's answers can be relied on.  MapIInv says why no id is  *)
(* given twice, RequestsIInv what the requests that wait have reserved and *)
(* may still change, EventIInv is what was answered last.  The methods     *)
(* drive the store of configurations (ServerDrivesTheStore), so what is    *)
(* proved of it holds of them.                                             *)
(***************************************************************************)
EXTENDS MC_Server, FiniteSetTheorems, TLAPS

OnItsWay ==
    /\ \A i \in DOMAIN channel : channel[i].type = "audit" =>
          channel[i].n = Len(trail) + i /\ channel[i].n <= logged
    /\ \A i \in DOMAIN channel : channel[i].type # "audit" =>
          i = Len(channel) /\ worker \in Gone
    /\ \A i \in DOMAIN channel : channel[i].type = "result" => returned
    /\ worker \in {"none", "starting", "running"} => logged = Len(trail) + Len(channel)

Unsettled ==
    /\ settled = "no" => error \in {"none", "worker"}
    /\ output = "value" => returned
    /\ worker = "exited0" => returned

Unwritten ==
    /\ directory = "kept" => worker = "none"
    /\ worker = "none" => timer = "off"

IInv ==
    /\ TypeOK
    /\ OnItsWay
    /\ Unsettled
    /\ Unwritten
    /\ TrailInOrder
    /\ ResultIsHonest
    /\ OverWhenSettled
    /\ DirectoryRemoved

----------------------------------------------------------------------------
(* What is used again and again.                                           *)

LEMMA Settling ==
    ASSUME TypeOK, NEW code \in {0, 1, 124}, NEW message \in {"none", "worker", "timeout", "spawn"},
           Finish(code, message)
    PROVE  /\ settled' \in {"no", "resolved", "thrown"}
           /\ settled' # "no"
           /\ result' \in Result
           /\ written' \in [Sink -> Nat]
<1>1. /\ settled \in {"no", "resolved", "thrown"} /\ result \in Result
      /\ written \in [Sink -> Nat] /\ Len(trail) \in Nat /\ output \in {"null", "value"}
    BY DEF TypeOK
<1>2. CASE settled # "no" /\ UNCHANGED <<settled, result, written>>
    BY <1>1, <1>2
<1>3. CASE settled = "no" /\ Resolve(code, message)
    <2>1. result' \in Result
        BY <1>1, <1>3 DEF Resolve, Result
    <2>2. written' \in [Sink -> Nat]
        BY <1>1, <1>3 DEF Resolve
    <2> QED
        BY <1>3, <2>1, <2>2 DEF Resolve
<1>4. CASE settled = "no" /\ \E i \in DOMAIN trail, s \in Sink : SinkThrows(i, s)
    <2>1. PICK i \in DOMAIN trail, s \in Sink : SinkThrows(i, s)
        BY <1>4
    <2>2. i \in Nat /\ i - 1 \in Nat
        BY <1>1 DEF TypeOK
    <2>3. written' \in [Sink -> Nat]
        BY <2>1, <2>2 DEF SinkThrows
    <2> QED
        BY <1>1, <2>1, <2>3 DEF SinkThrows
<1> QED
    BY <1>2, <1>3, <1>4 DEF Finish

\* Whichever way a run is settled, what a sink was given is a piece of the trail.
LEMMA SinksGetThePrefix ==
    ASSUME TypeOK, TrailInOrder, NEW code, NEW message, Finish(code, message), trail' = trail
    PROVE  \A s \in Sink : written'[s] <= Len(trail')
<1>1. Len(trail) \in Nat /\ written \in [Sink -> Nat]
    BY DEF TypeOK
<1>2. CASE settled # "no" /\ UNCHANGED <<settled, result, written>>
    BY <1>2 DEF TrailInOrder
<1>3. CASE settled = "no" /\ Resolve(code, message)
    BY <1>1, <1>3 DEF Resolve
<1>4. CASE settled = "no" /\ \E i \in DOMAIN trail, s \in Sink : SinkThrows(i, s)
    <2>1. PICK i \in DOMAIN trail, s \in Sink : SinkThrows(i, s)
        BY <1>4
    <2>2. i \in 1 .. Len(trail)
        BY <2>1 DEF TypeOK
    <2> QED
        BY <1>1, <2>1, <2>2 DEF SinkThrows
<1> QED
    BY <1>2, <1>3, <1>4 DEF Finish

\* A promise that is resolved now is resolved with what finish() was called with.
LEMMA ResolvedWith ==
    ASSUME TypeOK, NEW code, NEW message, Finish(code, message), settled = "no", settled' = "resolved"
    PROVE  /\ result'.code = code
           /\ result'.success = (code = 0 /\ message = "none")
           /\ result'.output = output
           /\ result'.error = message
BY DEF Finish, Resolve, SinkThrows

----------------------------------------------------------------------------
(* The invariant holds initially and is preserved, part by part.           *)

LEMMA InitIInv == Init => IInv
<1> SUFFICES ASSUME Init PROVE IInv
    OBVIOUS
<1>2. TypeOK
    <2>1. NoResult \in Result
        BY DEF NoResult, Result
    <2>2. written \in [Sink -> Nat]
        BY DEF Init
    <2>3. channel \in Seq(Message) /\ trail \in Seq(Nat)
        BY DEF Init
    <2> QED
        BY <2>1, <2>2, <2>3 DEF Init, TypeOK, Worker, Gone
<1>3. OnItsWay /\ Unsettled /\ Unwritten
    BY DEF Init, OnItsWay, Unsettled, Unwritten
<1>4. TrailInOrder /\ ResultIsHonest /\ OverWhenSettled /\ DirectoryRemoved
    BY DEF Init, TrailInOrder, ResultIsHonest, OverWhenSettled, DirectoryRemoved
<1> QED
    BY <1>2, <1>3, <1>4 DEF IInv

LEMMA NextTypeOK == TypeOK /\ [Next]_vars => TypeOK'
<1> SUFFICES ASSUME TypeOK, [Next]_vars PROVE TypeOK'
    OBVIOUS
<1> USE DEF handlerVars, workerVars, hostVars
<1>1. CASE MakeDirectory
    BY <1>1 DEF TypeOK, MakeDirectory
<1>2. CASE WriteFails
    BY <1>2 DEF TypeOK, WriteFails
<1>3. ASSUME NEW timed \in BOOLEAN, Start(timed) PROVE TypeOK'
    BY <1>3 DEF TypeOK, Start, Worker
<1>4. CASE CannotStart \/ Load \/ Crash
    BY <1>4 DEF TypeOK, CannotStart, Load, Crash, Worker, Gone
<1>5. CASE LogEntry
    <2>1. [type |-> "audit", n |-> logged'] \in Message /\ logged' \in Nat
        BY <1>5 DEF TypeOK, LogEntry, Message
    <2>2. channel' \in Seq(Message)
        BY <1>5, <2>1 DEF TypeOK, LogEntry
    <2> QED
        BY <1>5, <2>1, <2>2 DEF TypeOK, LogEntry
<1>6. CASE Return \/ Throw
    <2>1. [type |-> "result", n |-> 0] \in Message /\ [type |-> "error", n |-> 0] \in Message
        BY DEF Message
    <2>2. channel \in Seq(Message)
        BY DEF TypeOK
    <2>3. CASE Return
        <3>1. channel' \in Seq(Message)
            BY <2>1, <2>2, <2>3 DEF Return
        <3> QED
            BY <2>3, <3>1 DEF TypeOK, Return, Worker, Gone
    <2>4. CASE Throw
        <3>1. channel' \in Seq(Message)
            BY <2>1, <2>2, <2>4 DEF Throw
        <3> QED
            BY <2>4, <3>1 DEF TypeOK, Throw, Worker, Gone
    <2> QED
        BY <1>6, <2>3, <2>4
<1>7. CASE Lose
    BY <1>7 DEF TypeOK, Lose
<1>8. CASE Receive
    <2>1. Head(channel) \in Message /\ Tail(channel) \in Seq(Message)
        BY <1>8 DEF TypeOK, Receive
    <2>2. trail' \in Seq(Nat)
        BY <1>8, <2>1 DEF TypeOK, Receive, Message
    <2>3. output' \in {"null", "value"} /\ error' \in {"none", "worker", "timeout", "spawn"}
        BY <1>8 DEF TypeOK, Receive
    <2> QED
        BY <1>8, <2>1, <2>2, <2>3 DEF TypeOK, Receive
<1>9. CASE ExitEvent
    <2>1. PICK code \in {0, 1} : Finish(code, error)
        BY <1>9 DEF ExitEvent
    <2>2. settled' \in {"no", "resolved", "thrown"} /\ result' \in Result /\ written' \in [Sink -> Nat]
        BY <2>1, Settling DEF TypeOK
    <2> QED
        BY <1>9, <2>2 DEF TypeOK, ExitEvent, Worker, Gone
<1>10. CASE ErrorEvent
    <2>1. settled' \in {"no", "resolved", "thrown"} /\ result' \in Result /\ written' \in [Sink -> Nat]
        BY <1>10, Settling DEF ErrorEvent
    <2> QED
        BY <1>10, <2>1 DEF TypeOK, ErrorEvent, Worker, Gone
<1>11. CASE Timeout
    <2>1. CASE settled # "no"
        BY <1>11, <2>1 DEF TypeOK, Timeout
    <2>2. CASE settled = "no"
        <3>1. settled' \in {"no", "resolved", "thrown"} /\ result' \in Result /\ written' \in [Sink -> Nat]
            BY <1>11, <2>2, Settling DEF Timeout
        <3> QED
            BY <1>11, <2>2, <3>1 DEF TypeOK, Timeout, Worker, Gone
    <2> QED
        BY <2>1, <2>2
<1>12. CASE Answer
    BY <1>12 DEF TypeOK, Answer
<1>13. CASE UNCHANGED vars
    BY <1>13 DEF TypeOK, vars
<1> QED
    BY <1>1, <1>2, <1>3, <1>4, <1>5, <1>6, <1>7, <1>8, <1>9, <1>10, <1>11, <1>12, <1>13
       DEF Next, Agent, Host

LEMMA NextOnItsWay == IInv /\ [Next]_vars => OnItsWay'
<1> SUFFICES ASSUME IInv, [Next]_vars PROVE OnItsWay'
    OBVIOUS
<1> USE DEF handlerVars, workerVars, hostVars
<1>1. /\ OnItsWay /\ channel \in Seq(Message) /\ trail \in Seq(Nat)
      /\ logged \in Nat /\ worker \in Worker /\ Len(trail) \in Nat /\ Len(channel) \in Nat
    BY DEF IInv, TypeOK
<1>2. CASE UNCHANGED <<channel, trail, logged, returned, worker>>
    BY <1>1, <1>2 DEF OnItsWay
<1>3. ASSUME NEW timed \in BOOLEAN, Start(timed) PROVE OnItsWay'
    BY <1>1, <1>3 DEF OnItsWay, Start, Gone
<1>4. CASE CannotStart \/ Load \/ Crash
    <2>1. worker = "starting" \/ worker = "running"
        BY <1>4 DEF CannotStart, Load, Crash
    <2> QED
        BY <1>1, <1>4, <2>1 DEF OnItsWay, CannotStart, Load, Crash, Gone
<1>5. CASE LogEntry
    <2>1. /\ channel' = Append(channel, [type |-> "audit", n |-> logged + 1])
          /\ logged = Len(trail) + Len(channel) /\ worker = "running" /\ worker' = "running"
          /\ logged' = logged + 1 /\ trail' = trail /\ returned' = returned
        BY <1>1, <1>5 DEF LogEntry, OnItsWay
    <2>2. /\ Len(channel') = Len(channel) + 1
          /\ \A i \in DOMAIN channel : channel'[i] = channel[i] /\ i \in 1 .. Len(channel)
          /\ channel'[Len(channel) + 1] = [type |-> "audit", n |-> logged + 1]
          /\ DOMAIN channel' = DOMAIN channel \cup {Len(channel) + 1}
        BY <1>1, <2>1
    <2>3. \A i \in DOMAIN channel : channel[i].type = "audit"
        BY <1>1, <2>1 DEF OnItsWay, Gone
    <2>4. \A i \in DOMAIN channel' : channel'[i].type = "audit"
        BY <2>2, <2>3
    <2>5. \A i \in DOMAIN channel' : channel'[i].n = Len(trail') + i /\ channel'[i].n <= logged'
        BY <1>1, <2>1, <2>2, <2>3 DEF OnItsWay
    <2> QED
        BY <1>1, <2>1, <2>2, <2>4, <2>5 DEF OnItsWay
<1>6. CASE Return \/ Throw
    <2>1. PICK m \in {[type |-> "result", n |-> 0], [type |-> "error", n |-> 0]} :
              /\ channel' = Append(channel, m)
              /\ m.type = "result" => returned'
        BY <1>6 DEF Return, Throw
    <2>2. /\ worker \in {"starting", "running"} /\ worker' \in Gone
          /\ worker' \notin {"none", "starting", "running"}
          /\ trail' = trail /\ logged' = logged /\ (returned => returned')
        BY <1>6 DEF Return, Throw, Gone
    <2>3. /\ Len(channel') = Len(channel) + 1
          /\ \A i \in DOMAIN channel : channel'[i] = channel[i] /\ i \in 1 .. Len(channel)
          /\ channel'[Len(channel) + 1] = m
          /\ DOMAIN channel' = DOMAIN channel \cup {Len(channel) + 1}
        BY <1>1, <2>1
    <2>4. m.type # "audit"
        BY <2>1
    <2>5. \A i \in DOMAIN channel : channel[i].type = "audit"
        BY <1>1, <2>2 DEF OnItsWay, Gone
    <2> QED
        BY <1>1, <2>1, <2>2, <2>3, <2>4, <2>5 DEF OnItsWay
<1>7. CASE Lose
    BY <1>1, <1>7 DEF OnItsWay, Lose, Gone
<1>8. CASE Receive
    <2> DEFINE m == Head(channel)
    <2>1. /\ channel # <<>> /\ channel' = Tail(channel) /\ m = channel[1] /\ 1 \in DOMAIN channel
          /\ Len(channel') = Len(channel) - 1
          /\ \A i \in DOMAIN channel' : channel'[i] = channel[i + 1] /\ i + 1 \in DOMAIN channel /\ i \in Nat
        BY <1>1, <1>8 DEF Receive
    <2>2. worker' = worker /\ logged' = logged /\ returned' = returned
        BY <1>8 DEF Receive
    <2>3. CASE m.type = "audit"
        <3>1. trail' = Append(trail, m.n)
            BY <1>8, <2>3 DEF Receive
        <3>2. Len(trail') = Len(trail) + 1
            BY <1>1, <3>1
        <3>3. ASSUME NEW i \in DOMAIN channel'
              PROVE  /\ channel'[i].type = "audit" =>
                            channel'[i].n = Len(trail') + i /\ channel'[i].n <= logged'
                     /\ channel'[i].type # "audit" => i = Len(channel') /\ worker' \in Gone
                     /\ channel'[i].type = "result" => returned'
            <4>1. channel'[i] = channel[i + 1] /\ i + 1 \in DOMAIN channel /\ i \in Nat
                BY <2>1
            <4>2. channel[i + 1].type = "audit" =>
                      channel[i + 1].n = Len(trail) + (i + 1) /\ channel[i + 1].n <= logged
                BY <1>1, <4>1 DEF OnItsWay
            <4>3. channel[i + 1].type # "audit" => i + 1 = Len(channel) /\ worker \in Gone
                BY <1>1, <4>1 DEF OnItsWay
            <4>4. channel[i + 1].type = "result" => returned
                BY <1>1, <4>1 DEF OnItsWay
            <4>5. i \in Nat /\ Len(trail) \in Nat /\ Len(channel) \in Nat
                BY <1>1, <4>1
            <4>6. Len(trail) + (i + 1) = Len(trail') + i
                BY <3>2, <4>5
            <4>7. i + 1 = Len(channel) => i = Len(channel')
                BY <2>1, <4>5
            <4> QED
                BY <2>2, <4>1, <4>2, <4>3, <4>4, <4>6, <4>7
        <3>4. worker' \in {"none", "starting", "running"} => logged' = Len(trail') + Len(channel')
            <4>1. Len(trail) + Len(channel) = Len(trail') + Len(channel')
                <5>1. Len(trail) \in Nat /\ Len(channel) \in Nat
                    BY <1>1
                <5> QED
                    BY <2>1, <3>2, <5>1
            <4>2. worker \in {"none", "starting", "running"} => logged = Len(trail) + Len(channel)
                BY <1>1 DEF OnItsWay
            <4> QED
                BY <2>2, <4>1, <4>2
        <3> QED
            BY <3>3, <3>4 DEF OnItsWay
    <2>4. CASE m.type # "audit"
        <3>1. Len(channel) = 1 /\ worker \in Gone
            BY <1>1, <2>1, <2>4 DEF OnItsWay
        <3>2. DOMAIN channel' = {}
            BY <1>1, <2>1, <3>1
        <3> QED
            BY <1>1, <2>2, <3>1, <3>2 DEF OnItsWay, Gone
    <2> QED
        BY <2>3, <2>4
<1>9. CASE ExitEvent \/ ErrorEvent
    BY <1>1, <1>9 DEF OnItsWay, ExitEvent, ErrorEvent, Gone
<1>10. CASE Timeout
    BY <1>1, <1>10 DEF OnItsWay, Timeout, Gone
<1>11. CASE MakeDirectory \/ WriteFails \/ Answer \/ UNCHANGED vars
    BY <1>2, <1>11 DEF MakeDirectory, WriteFails, Answer, vars
<1> QED
    BY <1>3, <1>4, <1>5, <1>6, <1>7, <1>8, <1>9, <1>10, <1>11 DEF Next, Agent, Host

LEMMA NextUnsettled == IInv /\ [Next]_vars => Unsettled' /\ Unwritten'
<1> SUFFICES ASSUME IInv, [Next]_vars PROVE Unsettled' /\ Unwritten'
    OBVIOUS
<1> USE DEF handlerVars, workerVars, hostVars
<1>1. TypeOK /\ Unsettled /\ Unwritten /\ OnItsWay /\ OverWhenSettled
    BY DEF IInv
<1>2. CASE MakeDirectory \/ WriteFails \/ Answer \/ UNCHANGED vars
    BY <1>1, <1>2 DEF Unsettled, Unwritten, OverWhenSettled, Gone, MakeDirectory, WriteFails, Answer, vars
<1>3. ASSUME NEW timed \in BOOLEAN, Start(timed) PROVE Unsettled' /\ Unwritten'
    BY <1>1, <1>3 DEF Unsettled, Unwritten, Start
<1>4. CASE CannotStart \/ Load \/ LogEntry \/ Return \/ Throw \/ Crash \/ Lose
    BY <1>1, <1>4 DEF Unsettled, Unwritten, CannotStart, Load, LogEntry, Return, Throw, Crash, Lose
<1>5. CASE Receive
    <2>1. Head(channel) = channel[1] /\ 1 \in DOMAIN channel
        BY <1>1, <1>5 DEF Receive, TypeOK
    <2>2. Head(channel).type = "result" => returned
        BY <1>1, <2>1 DEF OnItsWay
    <2> QED
        BY <1>1, <1>5, <2>2 DEF Unsettled, Unwritten, Receive
<1>6. CASE ExitEvent
    <2>1. PICK code \in {0, 1} : Finish(code, error)
        BY <1>6 DEF ExitEvent
    <2>2. settled' # "no"
        BY <1>1, <2>1, Settling DEF TypeOK
    <2> QED
        BY <1>1, <1>6, <2>2 DEF Unsettled, Unwritten, ExitEvent
<1>7. CASE ErrorEvent
    <2>1. settled' # "no"
        BY <1>1, <1>7, Settling DEF ErrorEvent
    <2> QED
        BY <1>1, <1>7, <2>1 DEF Unsettled, Unwritten, ErrorEvent
<1>8. CASE Timeout
    <2>1. settled' # "no"
        BY <1>1, <1>8, Settling DEF Timeout
    <2> QED
        BY <1>1, <1>8, <2>1 DEF Unsettled, Unwritten, Timeout
<1> QED
    BY <1>2, <1>3, <1>4, <1>5, <1>6, <1>7, <1>8 DEF Next, Agent, Host

LEMMA NextTrailInOrder == IInv /\ [Next]_vars => TrailInOrder'
<1> SUFFICES ASSUME IInv, [Next]_vars PROVE TrailInOrder'
    OBVIOUS
<1> USE DEF handlerVars, workerVars, hostVars
<1>1. /\ TypeOK /\ TrailInOrder /\ OnItsWay /\ logged \in Nat /\ trail \in Seq(Nat)
      /\ channel \in Seq(Message) /\ Len(trail) \in Nat /\ written \in [Sink -> Nat]
    BY DEF IInv, TypeOK
<1>2. CASE UNCHANGED <<trail, logged, written>>
    BY <1>1, <1>2 DEF TrailInOrder
<1>3. CASE LogEntry
    BY <1>1, <1>3 DEF TrailInOrder, LogEntry
<1>4. CASE Receive
    <2>1. Head(channel) = channel[1] /\ 1 \in DOMAIN channel
        BY <1>1, <1>4 DEF Receive
    <2>2. UNCHANGED <<logged, written>>
        BY <1>4 DEF Receive
    <2>3. CASE Head(channel).type = "audit"
        <3>1. channel[1].n = Len(trail) + 1 /\ channel[1].n <= logged
            BY <1>1, <2>1, <2>3 DEF OnItsWay
        <3>2. trail' = Append(trail, Len(trail) + 1)
            BY <1>4, <2>1, <2>3, <3>1 DEF Receive
        <3>3. /\ Len(trail') = Len(trail) + 1 /\ trail'[Len(trail) + 1] = Len(trail) + 1
              /\ \A i \in DOMAIN trail : trail'[i] = trail[i]
              /\ DOMAIN trail' = DOMAIN trail \cup {Len(trail) + 1}
            BY <1>1, <3>2
        <3>4. \A s \in Sink : written'[s] <= Len(trail')
            BY <1>1, <2>2, <3>3 DEF TrailInOrder
        <3>5. \A i \in DOMAIN trail' : trail'[i] = i
            BY <1>1, <3>3 DEF TrailInOrder
        <3> QED
            BY <2>2, <3>1, <3>3, <3>4, <3>5 DEF TrailInOrder
    <2>4. CASE Head(channel).type # "audit"
        BY <1>2, <1>4, <2>2, <2>4 DEF Receive
    <2> QED
        BY <2>3, <2>4
<1>5. CASE ExitEvent \/ ErrorEvent \/ Timeout
    <2>1. UNCHANGED <<trail, logged>>
        BY <1>5 DEF ExitEvent, ErrorEvent, Timeout
    <2>2. CASE UNCHANGED written
        BY <1>2, <2>1, <2>2
    <2>3. CASE \E code, message : Finish(code, message)
        BY <1>1, <2>1, <2>3, SinksGetThePrefix DEF TrailInOrder
    <2> QED
        BY <1>5, <2>2, <2>3 DEF ExitEvent, ErrorEvent, Timeout
<1>6. CASE MakeDirectory \/ WriteFails \/ Answer \/ UNCHANGED vars
    BY <1>2, <1>6 DEF MakeDirectory, WriteFails, Answer, vars
<1>7. CASE CannotStart \/ Load \/ Return \/ Throw \/ Crash \/ Lose
    BY <1>2, <1>7 DEF CannotStart, Load, Return, Throw, Crash, Lose
<1>8. ASSUME NEW timed \in BOOLEAN, Start(timed) PROVE TrailInOrder'
    BY <1>2, <1>8 DEF Start
<1> QED
    BY <1>3, <1>4, <1>5, <1>6, <1>7, <1>8 DEF Next, Agent, Host

\* Nothing becomes of a result once there is one; finish() makes it, from the
\* exit code and the message the variable holds, and from the timeout's own.
LEMMA NextResultIsHonest == IInv /\ [Next]_vars => ResultIsHonest'
<1> SUFFICES ASSUME IInv, [Next]_vars PROVE ResultIsHonest'
    OBVIOUS
<1> USE DEF handlerVars, workerVars, hostVars
<1>1. TypeOK /\ ResultIsHonest /\ Unsettled
    BY DEF IInv
<1>2. returned => returned'
    BY <1>1 DEF Next, Agent, Host, vars, MakeDirectory, WriteFails, Answer, Start, CannotStart, Load,
                LogEntry, Return, Throw, Crash, Lose, Receive, ExitEvent, ErrorEvent, Timeout
<1>3. CASE UNCHANGED <<settled, result>>
    BY <1>1, <1>2, <1>3 DEF ResultIsHonest
<1>4. ASSUME NEW code \in {0, 1, 124}, NEW message \in {"none", "worker", "timeout", "spawn"},
             Finish(code, message), output = "value" => returned,
             code = 0 => returned, code = 124 <=> message = "timeout"
      PROVE  ResultIsHonest'
    <2>1. CASE settled = "no" /\ settled' = "resolved"
        <3>1. /\ result'.code = code /\ result'.success = (code = 0 /\ message = "none")
              /\ result'.output = output /\ result'.error = message
            BY <1>1, <1>4, <2>1, ResolvedWith
        <3> QED
            BY <1>2, <1>4, <3>1 DEF ResultIsHonest
    <2>2. CASE settled' # "resolved"
        BY <2>2 DEF ResultIsHonest
    <2>3. CASE settled # "no"
        BY <1>3, <1>4, <2>3 DEF Finish
    <2> QED
        BY <2>1, <2>2, <2>3
<1>5. output = "value" => returned
    BY <1>1 DEF Unsettled
<1>6. CASE ExitEvent
    <2>1. CASE settled # "no"
        BY <1>3, <1>6, <2>1 DEF ExitEvent, Finish, Resolve
    <2>2. CASE settled = "no" /\ worker = "exited0"
        <3>1. Finish(0, error) /\ returned /\ error \in {"none", "worker"}
            BY <1>1, <1>6, <2>2 DEF ExitEvent, Unsettled
        <3> QED
            BY <1>4, <1>5, <3>1
    <2>3. CASE settled = "no" /\ worker # "exited0"
        <3>1. Finish(1, error) /\ error \in {"none", "worker"}
            BY <1>1, <1>6, <2>3 DEF ExitEvent, Unsettled
        <3> QED
            BY <1>4, <1>5, <3>1
    <2> QED
        BY <2>1, <2>2, <2>3
<1>7. CASE ErrorEvent
    BY <1>4, <1>5, <1>7 DEF ErrorEvent
<1>8. CASE Timeout
    BY <1>3, <1>4, <1>5, <1>8 DEF Timeout
<1>9. CASE MakeDirectory \/ WriteFails \/ Answer \/ UNCHANGED vars
    BY <1>3, <1>9 DEF MakeDirectory, WriteFails, Answer, vars
<1>10. CASE CannotStart \/ Load \/ LogEntry \/ Return \/ Throw \/ Crash \/ Lose \/ Receive
    BY <1>3, <1>10 DEF CannotStart, Load, LogEntry, Return, Throw, Crash, Lose, Receive
<1>11. ASSUME NEW timed \in BOOLEAN, Start(timed) PROVE ResultIsHonest'
    BY <1>3, <1>11 DEF Start
<1> QED
    BY <1>6, <1>7, <1>8, <1>9, <1>10, <1>11 DEF Next, Agent, Host

LEMMA NextOver == IInv /\ [Next]_vars => OverWhenSettled' /\ DirectoryRemoved'
<1> SUFFICES ASSUME IInv, [Next]_vars PROVE OverWhenSettled' /\ DirectoryRemoved'
    OBVIOUS
<1> USE DEF handlerVars, workerVars, hostVars
<1>1. /\ TypeOK /\ OverWhenSettled /\ DirectoryRemoved /\ Unwritten /\ worker \in Worker
      /\ answered \in {"none", "result", "error"}
    BY DEF IInv, TypeOK
<1>2. CASE MakeDirectory \/ WriteFails \/ Answer \/ UNCHANGED vars
    BY <1>1, <1>2 DEF OverWhenSettled, DirectoryRemoved, Gone, MakeDirectory, WriteFails, Answer, vars
<1>3. ASSUME NEW timed \in BOOLEAN, Start(timed) PROVE OverWhenSettled' /\ DirectoryRemoved'
    BY <1>1, <1>3 DEF OverWhenSettled, DirectoryRemoved, Gone, Start
<1>4. CASE CannotStart \/ Load \/ LogEntry \/ Return \/ Throw \/ Crash \/ Lose \/ Receive
    BY <1>1, <1>4 DEF OverWhenSettled, DirectoryRemoved, Gone, CannotStart, Load, LogEntry, Return,
                      Throw, Crash, Lose, Receive
<1>5. CASE ExitEvent \/ ErrorEvent
    BY <1>1, <1>5 DEF OverWhenSettled, DirectoryRemoved, Gone, ExitEvent, ErrorEvent
<1>6. CASE Timeout
    <2>1. worker # "none"
        BY <1>1, <1>6 DEF Unwritten, Timeout
    <2>2. OverWhenSettled'
        BY <1>1, <1>6, <2>1 DEF OverWhenSettled, Gone, Worker, Timeout
    <2>3. DirectoryRemoved'
        BY <1>1, <1>6, <2>1 DEF DirectoryRemoved, Timeout
    <2> QED
        BY <2>2, <2>3
<1> QED
    BY <1>2, <1>3, <1>4, <1>5, <1>6 DEF Next, Agent, Host

----------------------------------------------------------------------------
(* The theorems.                                                           *)

\* The inductive invariant: what is on its way continues the trail, the run is
\* settled only over a process that has ended, and the four invariants hold.
THEOREM AgentInvariant == Spec => []IInv
<1>1. Init => IInv
    BY InitIInv
<1>2. IInv /\ [Next]_vars => IInv'
    <2> SUFFICES ASSUME IInv, [Next]_vars PROVE IInv'
        OBVIOUS
    <2>1. TypeOK'
        BY NextTypeOK DEF IInv
    <2>2. OnItsWay' /\ Unsettled' /\ Unwritten'
        BY NextOnItsWay, NextUnsettled
    <2>3. TrailInOrder' /\ ResultIsHonest' /\ OverWhenSettled' /\ DirectoryRemoved'
        BY NextTrailInOrder, NextResultIsHonest, NextOver
    <2> QED
        BY <2>1, <2>2, <2>3 DEF IInv
<1> QED
    BY <1>1, <1>2, PTL DEF Spec

\* The types of a run's state, for any number of sinks.
THEOREM AgentTyped == Spec => []TypeOK
<1>1. IInv => TypeOK
    BY DEF IInv
<1> QED
    BY <1>1, AgentInvariant, PTL

\* A run reported as successful is one whose function returned, and a timeout
\* has its own code and message, however exit, messages and timeout race.
THEOREM AgentResultIsHonest == Spec => []ResultIsHonest
<1>1. IInv => ResultIsHonest
    BY DEF IInv
<1> QED
    BY <1>1, AgentInvariant, PTL

\* The host's trail and every sink hold an initial piece of what the worker
\* logged, in its order, for any number of entries and sinks.
THEOREM AgentTrailInOrder == Spec => []TrailInOrder
<1>1. IInv => TrailInOrder
    BY DEF IInv
<1> QED
    BY <1>1, AgentInvariant, PTL

\* A run is settled only when its process has ended or has been killed, and a handler
\* that has answered has tried to remove its directory, unless it could not write the
\* script into it.
THEOREM AgentLeavesNothing == Spec => []NothingOutlivesARun
<1>1. IInv => NothingOutlivesARun
    BY DEF IInv, NothingOutlivesARun
<1> QED
    BY <1>1, AgentInvariant, PTL

----------------------------------------------------------------------------
(* The methods: what they do to the store of configurations.               *)

\* What a request does to the saved configurations are calls of ConfigStore.
LEMMA RequestsCallTheStore == [RpcNext]_rpcVars => [ConfigNext]_configVars
<1> SUFFICES ASSUME [RpcNext]_rpcVars PROVE [ConfigNext]_configVars
  OBVIOUS
<1>1. ASSUME UNCHANGED configVars PROVE [ConfigNext]_configVars
  BY <1>1
<1>2. CASE RefuseBody \/ RefuseMethod \/ RefuseParams \/ Overview \/ SessionCreate
  BY <1>1, <1>2 DEF RefuseBody, RefuseMethod, RefuseParams, Refuse, Overview, SessionCreate, AtOnce
<1>3. ASSUME NEW a \in Asked, AskSession(a) PROVE [ConfigNext]_configVars
  BY <1>1, <1>3 DEF AskSession, NotFound, SessionDestroy, SessionAudit, FsSnapshot, ListPlugins, SessionDetail,
     FsRead, FsList, Reads, FsWrite, FsWriteNull, RequestPlugin, RejectPlugin, ApproveThrows, AtOnce
<1>4. ASSUME NEW c \in Call, CreateMounts(c) \/ MountStores(c) \/ MountSettles(c) \/ CodeActs(c) \/ ExecuteSettles(c)
                             \/ ImportSettles(c) \/ \E a \in Asked : Execute(c, a) \/ ApproveWaits(c, a)
      PROVE  [ConfigNext]_configVars
  BY <1>1, <1>4 DEF CreateMounts, MountStores, MountSettles, CodeActs, ExecuteSettles, ImportSettles, Execute, ApproveWaits
<1>5. ASSUME NEW c \in Call, ConfigRequest(c) \/ ConfigGoesOn(c) \/ ConfigAnswers(c) \/ ConfigLaunch(c)
      PROVE  [ConfigNext]_configVars
  <2>1. \/ \E op \in {"save", "get", "list"} : ConfigCall(c, op)
        \/ SaveMadeDir(c) \/ FileExists(c) \/ ReadJson(c) \/ WriteBegins(c) \/ WriteEnds(c) \/ SaveFails(c) \/ ListReads(c)
    BY <1>5 DEF ConfigRequest, ConfigGoesOn, ConfigAnswers, ConfigLaunch
  <2> QED
    BY <2>1 DEF ConfigNext
<1>6. CASE DeleteConfig
  BY <1>6 DEF DeleteConfig, ConfigNext
<1>7. CASE ServerStops
  BY <1>7 DEF ServerStops, ConfigNext
<1>8. CASE ServerStarts \/ TimePasses
  BY <1>8 DEF ServerStarts, TimePasses, ConfigTick, ConfigNext
<1>9. CASE UNCHANGED rpcVars
  BY <1>1, <1>9 DEF rpcVars
<1> QED
  BY <1>2, <1>3, <1>4, <1>5, <1>6, <1>7, <1>8, <1>9 DEF RpcNext

\* The server's requests drive the store of configurations as its own specification
\* says, so what is proved of that store holds in the server (admin.config.* of
\* handler.ts, config-store.ts).
THEOREM ServerDrivesTheStore == RpcSpec => ConfigSpec
<1>1. RpcInit => ConfigInit
  BY DEF RpcInit
<1> QED
  BY <1>1, RequestsCallTheStore, PTL DEF RpcSpec, ConfigSpec

\* The calls of the store are records, whatever data they hold.
CallStep == {"idle", "mkdir", "exists", "readdir", "json", "write", "writing", "answered", "undefined", "thrown", "lost"}
CallRecord(D) == [op : {"none", "save", "get", "list"}, at : CallStep, data : D, raced : BOOLEAN]

\* A step of the store, of which the methods need to know what its calls are for
\* afterwards: one that was called, and otherwise what they were for, or nothing.
OpsAfter(op, c) ==
  /\ \E D : calls' \in [Call -> CallRecord(D)]
  /\ calls'[c].op \in {op, "none"}
  /\ \A d \in Call \ {c} : calls'[d].op = calls[d].op

LEMMA OneCallMoves ==
  ASSUME NEW D, calls \in [Call -> CallRecord(D)], NEW c \in Call
  PROVE  /\ \A step \in CallStep : \A x : Goes(c, step, x) => OpsAfter(calls[c].op, c)
         /\ \A how \in CallStep : Ends(c, how) => OpsAfter("none", c)
<1>1. ASSUME NEW r, NEW E, r \in CallRecord(E), D \subseteq E, calls' = [calls EXCEPT ![c] = r]
      PROVE  OpsAfter(r.op, c)
  <2>1. CallRecord(D) \subseteq CallRecord(E)
    BY <1>1 DEF CallRecord
  <2>2. calls' \in [Call -> CallRecord(E)]
    BY <1>1, <2>1
  <2> QED
    BY <1>1, <2>2 DEF OpsAfter
<1>2. ASSUME NEW step \in CallStep, NEW x, Goes(c, step, x) PROVE OpsAfter(calls[c].op, c)
  <2> DEFINE r == [calls[c] EXCEPT !.at = step, !.data = x]
  <2>1. r \in CallRecord(D \cup {x}) /\ r.op = calls[c].op
    BY DEF CallRecord
  <2>2. calls' = [calls EXCEPT ![c] = r]
    BY <1>2 DEF Goes
  <2> HIDE DEF r
  <2> QED
    BY <1>1, <2>1, <2>2
<1>3. ASSUME NEW how \in CallStep, Ends(c, how) PROVE OpsAfter("none", c)
  <2>1. Over(how) \in CallRecord(D \cup {None}) /\ Over(how).op = "none"
    BY DEF Over, NotCalled, CallRecord, CallStep
  <2> QED
    BY <1>1, <1>3, <2>1 DEF Ends
<1> QED
  BY <1>2, <1>3

\* The steps of a call of the store: only a save writes.
LEMMA StoreSteps ==
  ASSUME NEW D, calls \in [Call -> CallRecord(D)], NEW c \in Call
  PROVE  /\ SaveMadeDir(c) \/ FileExists(c) \/ ReadJson(c) \/ SaveFails(c) \/ ListReads(c) =>
              OpsAfter(calls[c].op, c) /\ configFile' = configFile
         /\ WriteBegins(c) \/ WriteEnds(c) => OpsAfter("save", c) /\ calls[c].op = "save"
         /\ \A op \in {"save", "get", "list"} : ConfigCall(c, op) => OpsAfter(op, c) /\ configFile' = configFile
<1>0. \A op : OpsAfter("none", c) => OpsAfter(op, c)
  BY DEF OpsAfter
<1>8. /\ \A step \in {"exists", "json", "write", "writing"} : \A x : Goes(c, step, x) => OpsAfter(calls[c].op, c)
      /\ \A how \in {"answered", "undefined", "thrown"} : Ends(c, how) => OpsAfter("none", c)
  <2>1. {"exists", "json", "write", "writing", "answered", "undefined", "thrown"} \subseteq CallStep
    BY DEF CallStep
  <2> QED
    BY <2>1, OneCallMoves
<1>1. SaveMadeDir(c) => OpsAfter(calls[c].op, c) /\ configFile' = configFile
  BY <1>8 DEF SaveMadeDir
<1>2. FileExists(c) => OpsAfter(calls[c].op, c) /\ configFile' = configFile
  BY <1>0, <1>8 DEF FileExists
<1>3. ReadJson(c) => OpsAfter(calls[c].op, c) /\ configFile' = configFile
  BY <1>0, <1>8 DEF ReadJson
<1>4. SaveFails(c) \/ ListReads(c) => OpsAfter(calls[c].op, c) /\ configFile' = configFile
  BY <1>0, <1>8 DEF SaveFails, ListReads
<1>5. WriteBegins(c) => OpsAfter("save", c) /\ calls[c].op = "save"
  BY <1>8 DEF WriteBegins, At
<1>6. ASSUME WriteEnds(c) PROVE OpsAfter("save", c) /\ calls[c].op = "save"
  <2>1. calls[c].op = "save" /\ calls' = [Raced(c) EXCEPT ![c] = Over("answered")]
    BY <1>6 DEF WriteEnds, At
  <2>2. ASSUME NEW d \in Call PROVE Raced(c)[d] \in CallRecord(D) /\ Raced(c)[d].op = calls[d].op
    <3> DEFINE b == calls[d].raced \/ (d # c /\ calls[d].at \in {"json", "write", "writing"})
    <3>1. Raced(c)[d] = [calls[d] EXCEPT !.raced = b]
      BY DEF Raced
    <3>2. b \in BOOLEAN /\ calls[d] \in CallRecord(D)
      OBVIOUS
    <3> HIDE DEF b
    <3> QED
      BY <3>1, <3>2 DEF CallRecord
  <2>3. Over("answered") \in CallRecord(D \cup {None}) /\ Over("answered").op = "none"
    BY DEF Over, NotCalled, CallRecord, CallStep
  <2>4. CallRecord(D) \subseteq CallRecord(D \cup {None})
    BY DEF CallRecord
  <2>5. DOMAIN Raced(c) = Call /\ Raced(c) = [d \in Call |-> Raced(c)[d]]
    BY DEF Raced
  <2>6. calls' \in [Call -> CallRecord(D \cup {None})]
    BY <2>1, <2>2, <2>3, <2>4, <2>5
  <2>7. calls'[c].op = "none" /\ \A d \in Call \ {c} : calls'[d].op = calls[d].op
    BY <2>1, <2>2, <2>3, <2>5
  <2> QED
    BY <2>1, <2>6, <2>7 DEF OpsAfter
<1>7. ASSUME NEW op \in {"save", "get", "list"}, ConfigCall(c, op)
      PROVE  OpsAfter(op, c) /\ configFile' = configFile
  <2> DEFINE at == CASE op = "save" -> "mkdir" [] op = "get" -> "exists" [] OTHER -> "readdir"
             r == [NotCalled EXCEPT !.op = op, !.at = at]
  <2>1. calls' = [calls EXCEPT ![c] = r]
    BY <1>7 DEF ConfigCall
  <2>5. at \in CallStep
    BY DEF CallStep
  <2> HIDE DEF at
  <2>2. r \in CallRecord(D \cup {None}) /\ r.op = op
    BY <2>5 DEF NotCalled, CallRecord
  <2> HIDE DEF r
  <2>3. CallRecord(D) \subseteq CallRecord(D \cup {None})
    BY DEF CallRecord
  <2>4. calls' \in [Call -> CallRecord(D \cup {None})]
    BY <2>1, <2>2, <2>3
  <2> QED
    BY <1>7, <2>1, <2>2, <2>4 DEF OpsAfter, ConfigCall
<1> QED
  BY <1>1, <1>2, <1>3, <1>4, <1>5, <1>6, <1>7

----------------------------------------------------------------------------
(* The methods: sessions.                                                  *)

\* An id is a number and a time.  Within one life of the server numbers grow, and
\* a new life begins at a later time, so no id is given twice; the numbers of this
\* life are up to the counter.
MapIInv ==
    /\ up \in BOOLEAN /\ now \in 0 .. MaxTime /\ ended \in Nat
    /\ objects \in Seq(Session) /\ sessions \subseteq DOMAIN objects
    /\ counter \in Nat /\ counter <= Len(objects) /\ SessionsAddUp
    /\ \A i, j \in DOMAIN objects : objects[i].id = objects[j].id => i = j
    /\ \A i \in DOMAIN objects : /\ objects[i].id[2] <= now
                                 /\ up /\ objects[i].id[2] = now => objects[i].id[1] <= counter

LEMMA MapFacts ==
    ASSUME MapIInv
    PROVE  /\ Len(objects) \in Nat /\ DOMAIN objects = 1 .. Len(objects) /\ IsFiniteSet(sessions)
           /\ \A i \in DOMAIN objects : objects[i] \in Session /\ objects[i].id[1] \in Nat /\ objects[i].id[2] \in Nat
<1>1. objects \in Seq(Session) /\ sessions \subseteq DOMAIN objects
    BY DEF MapIInv
<1>2. Len(objects) \in Nat /\ DOMAIN objects = 1 .. Len(objects)
    BY <1>1
<1>3. IsFiniteSet(sessions)
    <2>1. IsFiniteSet(1 .. Len(objects))
        BY <1>2, FS_Interval
    <2> QED
        BY <1>1, <1>2, <2>1, FS_Subset
<1>4. ASSUME NEW i \in DOMAIN objects
      PROVE  objects[i] \in Session /\ objects[i].id[1] \in Nat /\ objects[i].id[2] \in Nat
    <2>1. objects[i] \in Session
        BY <1>1, <1>2
    <2>2. objects[i].id \in (1 .. MaxSessions) \X (0 .. MaxTime)
        BY <2>1 DEF Session
    <2>3. objects[i].id[1] \in 1 .. MaxSessions /\ objects[i].id[2] \in 0 .. MaxTime
        BY <2>2
    <2> QED
        BY <2>1, <2>3, RpcAssumption, ClockAssumption
<1> QED
    BY <1>2, <1>3, <1>4

\* An id that is asked for finds its own session.
LEMMA GotIsAsked ==
    ASSUME MapIInv, NEW a \in Asked, Got(a) # 0
    PROVE  Got(a) = a /\ a \in sessions /\ a \in DOMAIN objects
<1>1. PICK s \in sessions : a # 0 /\ objects[s].id = objects[a].id
    BY DEF Got
<1>2. Got(a) \in sessions /\ objects[Got(a)].id = objects[a].id
    BY <1>1 DEF Got
<1>3. a \in DOMAIN objects
    BY <1>1, MapFacts DEF Asked
<1> QED
    BY <1>2, <1>3 DEF MapIInv

LEMMA MapMade ==
    ASSUME MapIInv, Create, up, Len(objects) < MaxSessions, UNCHANGED <<ended, up, now>>
    PROVE  MapIInv' /\ Len(objects') = Len(objects) + 1
<1>1. PICK file \in BOOLEAN : objects' = Append(objects, [id |-> NewId, file |-> file, pending |-> "none"])
    BY DEF Create
<1> DEFINE new == [id |-> NewId, file |-> file, pending |-> "none"]
<1>2. counter' = counter + 1 /\ sessions' = sessions \cup {Len(objects) + 1}
    BY DEF Create
<1>3. /\ Len(objects) \in Nat /\ DOMAIN objects = 1 .. Len(objects) /\ IsFiniteSet(sessions)
      /\ \A i \in DOMAIN objects : objects[i].id[1] \in Nat /\ objects[i].id[2] \in Nat
    BY MapFacts
<1>4. /\ objects \in Seq(Session) /\ sessions \subseteq DOMAIN objects /\ counter \in Nat /\ counter <= Len(objects)
      /\ now \in 0 .. MaxTime /\ ended \in Nat /\ SessionsAddUp
    BY DEF MapIInv
<1>5. counter + 1 \in 1 .. MaxSessions
    BY <1>3, <1>4, RpcAssumption
<1>6. new \in Session /\ new.id[1] = counter + 1 /\ new.id[2] = now
    BY <1>4, <1>5 DEF Session, NewId
<1> HIDE DEF new
<1>7. /\ objects' \in Seq(Session) /\ Len(objects') = Len(objects) + 1
      /\ DOMAIN objects' = 1 .. Len(objects) + 1
      /\ objects'[Len(objects) + 1] = new
      /\ \A i \in DOMAIN objects : objects'[i] = objects[i]
    BY <1>1, <1>3, <1>4, <1>6 DEF new
<1>8. sessions' \subseteq DOMAIN objects'
    BY <1>2, <1>3, <1>4, <1>7
<1>9. SessionsAddUp'
    <2>1. Len(objects) + 1 \notin sessions
        BY <1>3, <1>4
    <2>2. Cardinality(sessions') = Cardinality(sessions) + 1 /\ Cardinality(sessions) \in Nat
        BY <1>2, <1>3, <2>1, FS_AddElement, FS_CardinalityType
    <2> QED
        BY <1>2, <1>4, <2>2 DEF SessionsAddUp
<1>10. ASSUME NEW i \in DOMAIN objects'
       PROVE  objects'[i].id[2] <= now' /\ (up' /\ objects'[i].id[2] = now' => objects'[i].id[1] <= counter')
    <2>1. CASE i = Len(objects) + 1
        BY <1>2, <1>4, <1>6, <1>7, <2>1
    <2>2. CASE i \in DOMAIN objects
        BY <1>2, <1>3, <1>4, <1>7, <2>2 DEF MapIInv
    <2> QED
        BY <1>3, <1>7, <2>1, <2>2
<1>11. ASSUME NEW i \in DOMAIN objects
       PROVE  objects[i].id # new.id
    BY <1>3, <1>4, <1>6 DEF MapIInv
<1>12. ASSUME NEW i \in DOMAIN objects', NEW j \in DOMAIN objects', objects'[i].id = objects'[j].id
       PROVE  i = j
    <2>1. i \in DOMAIN objects \/ i = Len(objects) + 1
        BY <1>3, <1>7
    <2>2. j \in DOMAIN objects \/ j = Len(objects) + 1
        BY <1>3, <1>7
    <2> QED
        BY <1>7, <1>11, <1>12, <2>1, <2>2 DEF MapIInv
<1>13. up' \in BOOLEAN /\ now' \in 0 .. MaxTime /\ ended' \in Nat /\ counter' \in Nat /\ counter' <= Len(objects')
    BY <1>2, <1>3, <1>4, <1>7 DEF MapIInv
<1> QED
    BY <1>7, <1>8, <1>9, <1>10, <1>12, <1>13 DEF MapIInv

\* What is done to one session's object, or nothing, leaves its id.
LEMMA MapEdited ==
    ASSUME MapIInv, objects' \in Seq(Session), Len(objects') = Len(objects),
           \A i \in DOMAIN objects : objects'[i].id = objects[i].id,
           UNCHANGED <<counter, sessions, ended, up, now>>
    PROVE  MapIInv'
<1>1. DOMAIN objects' = DOMAIN objects
    BY MapFacts
<1>2. SessionsAddUp'
    BY DEF MapIInv, SessionsAddUp
<1> QED
    BY <1>1, <1>2 DEF MapIInv

LEMMA ObjectEdited ==
    ASSUME MapIInv, NEW s \in DOMAIN objects, NEW v,
           \/ v \in BOOLEAN /\ objects' = [objects EXCEPT ![s].file = v]
           \/ v \in {"none", "approvable", "refused"} /\ objects' = [objects EXCEPT ![s].pending = v]
    PROVE  /\ objects' \in Seq(Session) /\ Len(objects') = Len(objects)
           /\ \A i \in DOMAIN objects : objects'[i].id = objects[i].id
<1>1. objects \in Seq(Session) /\ objects[s] \in Session
    BY MapFacts DEF MapIInv
<1>2. PICK r : objects' = [objects EXCEPT ![s] = r] /\ r \in Session /\ r.id = objects[s].id
    <2>1. CASE v \in BOOLEAN /\ objects' = [objects EXCEPT ![s].file = v]
        <3> DEFINE r == [objects[s] EXCEPT !.file = v]
        <3>1. r \in Session /\ r.id = objects[s].id
            BY <1>1, <2>1 DEF Session
        <3> QED
            BY <2>1, <3>1
    <2>2. CASE v \in {"none", "approvable", "refused"} /\ objects' = [objects EXCEPT ![s].pending = v]
        <3> DEFINE r == [objects[s] EXCEPT !.pending = v]
        <3>1. r \in Session /\ r.id = objects[s].id
            BY <1>1, <2>2 DEF Session
        <3> QED
            BY <2>2, <3>1
    <2> QED
        BY <2>1, <2>2
<1> QED
    BY <1>1, <1>2

LEMMA MapDestroyed ==
    ASSUME MapIInv, NEW s \in sessions, sessions' = sessions \ {s}, ended' = ended + 1,
           UNCHANGED <<counter, objects, up, now>>
    PROVE  MapIInv'
<1>1. IsFiniteSet(sessions)
    BY MapFacts
<1>2. Cardinality(sessions') = Cardinality(sessions) - 1 /\ Cardinality(sessions) \in Nat
    BY <1>1, FS_RemoveElement, FS_CardinalityType
<1>3. SessionsAddUp'
    BY <1>2 DEF MapIInv, SessionsAddUp
<1> QED
    BY <1>3 DEF MapIInv

LEMMA MapInTime == MapIInv /\ (ServerStops \/ ServerStarts \/ TimePasses) => MapIInv'
<1> SUFFICES ASSUME MapIInv, ServerStops \/ ServerStarts \/ TimePasses PROVE MapIInv'
    OBVIOUS
<1>1. /\ Len(objects) \in Nat
      /\ \A i \in DOMAIN objects : objects[i].id[1] \in Nat /\ objects[i].id[2] \in Nat
    BY MapFacts
<1>2. CASE ServerStops
    <2>1. Cardinality(sessions') = 0
        BY <1>2, FS_EmptySet DEF ServerStops
    <2>2. ~up' /\ up' \in BOOLEAN
        BY <1>2 DEF ServerStops
    <2>3. sessions' = {} /\ counter' = 0 /\ ended' = 0 /\ UNCHANGED <<objects, now>>
        BY <1>2 DEF ServerStops, Restart
    <2>4. SessionsAddUp'
        BY <2>1, <2>3 DEF SessionsAddUp
    <2> QED
        BY <1>1, <2>2, <2>3, <2>4 DEF MapIInv
<1>3. CASE ServerStarts \/ TimePasses
    <2>1. /\ UNCHANGED <<inServer, ended>> /\ up' /\ now < MaxTime /\ now' = now + 1
        BY <1>3 DEF ServerStarts, TimePasses, ConfigTick, Tick, MapIInv
    <2>2. now' \in 0 .. MaxTime /\ up' \in BOOLEAN
        BY <1>3, <2>1, ClockAssumption DEF MapIInv, ServerStarts, TimePasses
    <2> QED
        BY <1>1, <2>1, <2>2 DEF inServer, MapIInv, SessionsAddUp
<1> QED
    BY <1>2, <1>3

----------------------------------------------------------------------------
(* The methods: requests and answers.                                      *)

RequestRecord == [method : Waiting \cup {"none", "over"}, of : 0 .. MaxSessions, changed : BOOLEAN]

\* What a request that waits may be: one of a session is of one that was made, one
\* that must not leave a change behind has made none, and only a save writes.
Fits(r, op, made) ==
    /\ r \in RequestRecord /\ r.of <= made
    /\ r.method \in {"create", "execute", "approve"} => r.of \in 1 .. made
    /\ r.changed => r.method \in {"create", "execute", "save"}
    /\ r.method \in {"get", "list", "launch"} => op # "save"

\* A launch has its session reserved within the bound.
RequestsIInv ==
    /\ \E D : calls \in [Call -> CallRecord(D)]
    /\ requests \in [Call -> RequestRecord]
    /\ \A c \in Call : Fits(requests[c], calls[c].op, Len(objects))
    /\ Len(objects) + Launches <= MaxSessions

EventIInv ==
    /\ event.asked \in 0 .. MaxSessions /\ event.got \in 0 .. MaxSessions
    /\ ErrorsLeaveNothing /\ IdsFindTheirOwn

RpcIInv == MapIInv /\ RequestsIInv /\ EventIInv

LEMMA LaunchesCounted ==
    ASSUME requests \in [Call -> RequestRecord], NEW c \in Call, NEW r, requests' = [requests EXCEPT ![c] = r]
    PROVE  /\ Launches \in Nat /\ Launches' \in Nat /\ Launches' <= Launches + 1
           /\ r.method # "launch" \/ requests[c].method = "launch" => Launches' <= Launches
           /\ r.method # "launch" /\ requests[c].method = "launch" => Launches' = Launches - 1
<1> DEFINE L == {d \in Call : requests[d].method = "launch"}
<1>1. IsFiniteSet(L) /\ IsFiniteSet(L') /\ Launches = Cardinality(L) /\ Launches' = Cardinality(L')
    <2>1. IsFiniteSet(Call)
        BY RpcAssumption
    <2>2. L \subseteq Call /\ L' \subseteq Call
        OBVIOUS
    <2>3. Launches = Cardinality(L) /\ Launches' = Cardinality(L')
        BY DEF Launches
    <2> QED
        BY <2>1, <2>2, <2>3, FS_Subset
<1>2. L' \subseteq L \cup {c}
    OBVIOUS
<1>3. r.method # "launch" => L' = L \ {c}
    OBVIOUS
<1>4. requests[c].method = "launch" => c \in L
    OBVIOUS
<1>5. Cardinality(L) \in Nat /\ Cardinality(L') \in Nat
    BY <1>1, FS_CardinalityType
<1> HIDE DEF L
<1>6. Launches' <= Launches + 1
    <2>3. IsFiniteSet(L \cup {c}) /\ Cardinality(L \cup {c}) \in {Cardinality(L), Cardinality(L) + 1}
        BY <1>1, FS_AddElement
    <2>1. IsFiniteSet(L \cup {c}) /\ Cardinality(L \cup {c}) <= Cardinality(L) + 1 /\ Cardinality(L \cup {c}) \in Nat
        BY <1>5, <2>3
    <2>2. Cardinality(L') <= Cardinality(L \cup {c})
        BY <1>2, <2>1, FS_Subset
    <2> QED
        BY <1>1, <1>5, <2>1, <2>2
<1>7. r.method # "launch" => Launches' <= Launches
    BY <1>1, <1>3, <1>5, FS_Subset
<1>8. requests[c].method = "launch" => Launches' <= Launches
    <2>1. c \in L => L' \subseteq L
        BY <1>2
    <2> QED
        BY <1>1, <1>4, <1>5, <2>1, FS_Subset
<1>9. r.method # "launch" /\ requests[c].method = "launch" => Launches' = Launches - 1
    BY <1>1, <1>3, <1>4, <1>5, FS_RemoveElement
<1> QED
    BY <1>1, <1>5, <1>6, <1>7, <1>8, <1>9

\* A request begins to wait, goes on or is over, and the others do not notice.
LEMMA OneRequestMoves ==
    ASSUME MapIInv, RequestsIInv, NEW c \in Call, NEW r, requests' = [requests EXCEPT ![c] = r],
           Len(objects') \in Nat, Len(objects) <= Len(objects'),
           Fits(r, calls'[c].op, Len(objects')),
           \E D : calls' \in [Call -> CallRecord(D)], \A d \in Call \ {c} : calls'[d].op = calls[d].op,
           \/ (r.method # "launch" \/ requests[c].method = "launch") /\ Len(objects') = Len(objects)
           \/ r.method # "launch" /\ requests[c].method = "launch" /\ Len(objects') = Len(objects) + 1
           \/ Len(objects') + Launches < MaxSessions
           \/ r.method # "launch" /\ Len(objects') + Launches <= MaxSessions
    PROVE  RequestsIInv'
<1>1. Len(objects) \in Nat /\ MaxSessions \in Nat
    BY MapFacts, RpcAssumption
<1>2. /\ requests \in [Call -> RequestRecord] /\ Len(objects) + Launches <= MaxSessions
      /\ \A d \in Call : Fits(requests[d], calls[d].op, Len(objects))
    BY DEF RequestsIInv
<1>3. /\ Launches \in Nat /\ Launches' \in Nat /\ Launches' <= Launches + 1
      /\ r.method # "launch" \/ requests[c].method = "launch" => Launches' <= Launches
      /\ r.method # "launch" /\ requests[c].method = "launch" => Launches' = Launches - 1
    BY <1>2, LaunchesCounted
<1>4. Len(objects') + Launches' <= MaxSessions
    BY <1>1, <1>2, <1>3
<1>5. requests' \in [Call -> RequestRecord]
    BY <1>2 DEF Fits
<1>6. ASSUME NEW d \in Call PROVE Fits(requests'[d], calls'[d].op, Len(objects'))
    <2>1. CASE d = c
        BY <1>2, <2>1
    <2>2. CASE d # c
        <3>1. requests'[d] = requests[d] /\ calls'[d].op = calls[d].op
            BY <1>2, <2>2
        <3>2. requests[d].of \in Nat
            BY <1>2, RpcAssumption DEF RequestRecord
        <3> QED
            BY <1>1, <1>2, <3>1, <3>2 DEF Fits
    <2> QED
        BY <2>1, <2>2
<1> QED
    BY <1>4, <1>5, <1>6 DEF RequestsIInv

\* Nothing happens to the requests that wait.
LEMMA NoRequestMoves ==
    ASSUME MapIInv, RequestsIInv, requests' = requests, Len(objects') \in Nat, Len(objects) <= Len(objects'),
           \E D : calls' \in [Call -> CallRecord(D)], \A d \in Call : calls'[d].op = calls[d].op,
           Len(objects') + Launches <= MaxSessions
    PROVE  RequestsIInv'
<1>1. Launches' = Launches
    BY DEF Launches
<1>2. Len(objects) \in Nat
    BY MapFacts
<1>3. ASSUME NEW d \in Call PROVE Fits(requests'[d], calls'[d].op, Len(objects'))
    <2>1. Fits(requests[d], calls[d].op, Len(objects)) /\ calls'[d].op = calls[d].op
        BY DEF RequestsIInv
    <2>2. requests[d].of \in Nat
        BY RpcAssumption DEF RequestsIInv, RequestRecord
    <2> QED
        BY <1>2, <2>1, <2>2 DEF Fits
<1> QED
    BY <1>1, <1>3 DEF RequestsIInv

\* What the operators the handlers are written with say.
LEMMA ChangesKnown ==
    /\ Changes \in BOOLEAN
    /\ UNCHANGED <<inServer, configFile>> => ~Changes
    BY DEF Changes

LEMMA AtOnceSays ==
    ASSUME NEW method, NEW code, NEW asked, NEW got, AtOnce(method, code, asked, got)
    PROVE  /\ up /\ UNCHANGED <<configVars, up, requests>>
           /\ event'.method = method /\ event'.code = code /\ event'.asked = asked /\ event'.got = got
           /\ event'.changed => Changes
<1>1. event' = [method |-> method, code |-> code, asked |-> asked, got |-> got, changed |-> Changes]
    BY DEF AtOnce, Reply
<1>2. up /\ UNCHANGED <<configVars, up, requests>>
    BY DEF AtOnce
<1> QED
    BY <1>1, <1>2

LEMMA AnswerSays ==
    ASSUME NEW c \in Call, NEW code, Answers(c, code)
    PROVE  /\ event'.method = requests[c].method /\ event'.code = code
           /\ event'.asked = requests[c].of /\ event'.got = requests[c].of
           /\ event'.changed => requests[c].changed \/ Changes
           /\ requests' = [requests EXCEPT ![c] = [Idle EXCEPT !.method = "over"]]
           /\ UNCHANGED <<up, ended>>
    BY DEF Answers, Reply

LEMMA WaitSays ==
    ASSUME NEW c \in Call, NEW method, NEW of, Waits(c, method, of)
    PROVE  /\ up /\ requests[c] = Idle /\ event' = Silent /\ UNCHANGED <<up, ended>>
           /\ \E r \in [method : {method}, of : {of}, changed : BOOLEAN] :
                 requests' = [requests EXCEPT ![c] = r] /\ (r.changed => Changes)
<1>1. requests' = [requests EXCEPT ![c] = [method |-> method, of |-> of, changed |-> Changes]]
    BY DEF Waits
<1>2. [method |-> method, of |-> of, changed |-> Changes] \in [method : {method}, of : {of}, changed : BOOLEAN]
    BY ChangesKnown
<1>3. [method |-> method, of |-> of, changed |-> Changes].changed => Changes
    OBVIOUS
<1> QED
    BY <1>1, <1>2, <1>3 DEF Waits

LEMMA GoesOnSays ==
    ASSUME NEW c \in Call, NEW method, GoesOn(c, method), requests[c] \in RequestRecord
    PROVE  /\ up /\ requests[c].method = method /\ UNCHANGED <<up, ended>>
           /\ \E r \in [method : {method}, of : {requests[c].of}, changed : BOOLEAN] :
                 requests' = [requests EXCEPT ![c] = r] /\ (r.changed => requests[c].changed \/ Changes)
<1> DEFINE r == [requests[c] EXCEPT !.changed = requests[c].changed \/ Changes]
<1>1. up /\ requests[c].method = method /\ UNCHANGED <<up, ended>> /\ requests' = [requests EXCEPT ![c] = r]
    BY DEF GoesOn
<1>2. r \in [method : {method}, of : {requests[c].of}, changed : BOOLEAN]
    BY <1>1, ChangesKnown DEF RequestRecord
<1>3. r.changed => requests[c].changed \/ Changes
    BY DEF RequestRecord
<1> HIDE DEF r
<1> QED
    BY <1>1, <1>2, <1>3

LEMMA RoomFacts ==
    ASSUME RpcIInv
    PROVE  /\ Launches \in Nat /\ MaxSessions \in Nat /\ Len(objects) \in Nat
           /\ Len(objects) + Launches <= MaxSessions /\ Asked \subseteq 0 .. MaxSessions
<1>1. Launches \in Nat
    <2>1. IsFiniteSet({c \in Call : requests[c].method = "launch"})
        BY RpcAssumption, FS_Subset
    <2> QED
        BY <2>1, FS_CardinalityType DEF Launches
<1>2. Len(objects) \in Nat /\ MaxSessions \in Nat /\ Len(objects) + Launches <= MaxSessions
    BY MapFacts, RpcAssumption DEF RpcIInv, RequestsIInv
<1> QED
    BY <1>1, <1>2 DEF Asked

LEMMA SilentIsHonest == event' = Silent => EventIInv'
    BY RpcAssumption DEF Silent, EventIInv, ErrorsLeaveNothing, IdsFindTheirOwn

LEMMA MapSame ==
    ASSUME RpcIInv, UNCHANGED <<inServer, ended, up, now>>
    PROVE  MapIInv' /\ objects' = objects /\ Len(objects') + Launches <= MaxSessions
<1>1. UNCHANGED <<counter, objects, sessions>>
    BY DEF inServer
<1>2. MapIInv' /\ Len(objects') = Len(objects)
    BY <1>1, MapEdited DEF RpcIInv, MapIInv
<1> QED
    BY <1>1, <1>2 DEF RpcIInv, RequestsIInv

\* A method that does not wait: only one that succeeds changes something.
LEMMA AnsweredAtOnce ==
    ASSUME RpcIInv, NEW method, NEW code, NEW asked, NEW got, AtOnce(method, code, asked, got),
           MapIInv', Len(objects) <= Len(objects'), Len(objects') + Launches <= MaxSessions,
           asked \in 0 .. MaxSessions, got \in 0 .. MaxSessions, asked # 0 => got = asked,
           code = "ok" \/ UNCHANGED inServer
    PROVE  RpcIInv'
<1>1. /\ UNCHANGED <<configVars, up, requests>>
      /\ event'.code = code /\ event'.asked = asked /\ event'.got = got
      /\ event'.changed => Changes
    BY AtOnceSays
<1>2. UNCHANGED <<configFile, calls>>
    BY <1>1 DEF configVars, inConfigs
<1>3. code # "ok" => ~event'.changed
    BY <1>1, <1>2, ChangesKnown
<1>4. EventIInv'
    BY <1>1, <1>3 DEF EventIInv, ErrorsLeaveNothing, IdsFindTheirOwn
<1>5. Len(objects') \in Nat
    BY DEF MapIInv
<1>6. RequestsIInv'
    BY <1>1, <1>2, <1>5, NoRequestMoves DEF RpcIInv, RequestsIInv
<1> QED
    BY <1>4, <1>6 DEF RpcIInv

LEMMA AtOnceKeeps ==
    ASSUME RpcIInv, \/ RefuseBody \/ RefuseMethod \/ RefuseParams \/ Overview \/ SessionCreate
                    \/ \E a \in Asked : AskSession(a)
    PROVE  RpcIInv'
<1>0. /\ Launches \in Nat /\ MaxSessions \in Nat /\ Len(objects) \in Nat
      /\ Len(objects) + Launches <= MaxSessions /\ Asked \subseteq 0 .. MaxSessions
    BY RoomFacts
<1>1. ASSUME NEW method, NEW code, NEW asked \in 0 .. MaxSessions, NEW got \in 0 .. MaxSessions,
             asked # 0 => got = asked, AtOnce(method, code, asked, got), UNCHANGED <<inServer, ended>>
      PROVE  RpcIInv'
    <2>1. UNCHANGED <<up, now>>
        BY <1>1, AtOnceSays DEF configVars
    <2>2. MapIInv' /\ objects' = objects /\ Len(objects') + Launches <= MaxSessions
        BY <1>1, <2>1, MapSame
    <2> QED
        BY <1>0, <1>1, <2>2, AnsweredAtOnce
<1>2. ASSUME NEW code, Refuse(code) PROVE RpcIInv'
    BY <1>0, <1>1, <1>2 DEF Refuse
<1>3. CASE RefuseBody \/ RefuseMethod \/ RefuseParams
    BY <1>2, <1>3 DEF RefuseBody, RefuseMethod, RefuseParams
<1>4. CASE Overview
    BY <1>0, <1>1, <1>4 DEF Overview
<1>5. CASE SessionCreate
    <2>1. Create /\ AtOnce("create", "ok", Len(objects) + 1, Len(objects) + 1) /\ ended' = ended
          /\ Len(objects) + Launches < MaxSessions
        BY <1>5 DEF SessionCreate, MayCreate
    <2>2. up /\ UNCHANGED <<up, now>>
        BY <2>1, AtOnceSays DEF configVars
    <2>3. MapIInv' /\ Len(objects') = Len(objects) + 1
        BY <1>0, <2>1, <2>2, MapMade DEF RpcIInv
    <2>4. Len(objects) + 1 \in 0 .. MaxSessions /\ Len(objects) <= Len(objects') /\ Len(objects') + Launches <= MaxSessions
        BY <1>0, <2>1, <2>3
    <2> QED
        BY <2>1, <2>3, <2>4, AnsweredAtOnce
<1>6. ASSUME NEW a \in Asked, AskSession(a) PROVE RpcIInv'
    <2>1. CASE NotFound(a)
        BY <1>0, <1>1, <2>1 DEF NotFound
    <2>2. SUFFICES ASSUME Got(a) # 0 PROVE RpcIInv'
        BY <1>6, <2>1 DEF AskSession, SessionDestroy, SessionAudit, FsSnapshot, ListPlugins, SessionDetail,
           FsRead, FsList, Reads, FsWrite, FsWriteNull, RequestPlugin, RejectPlugin, ApproveThrows
    <2>3. Got(a) = a /\ a \in sessions /\ a \in DOMAIN objects /\ a \in 0 .. MaxSessions
        BY <1>0, <2>2, GotIsAsked DEF RpcIInv
    <2>4. ASSUME NEW code, Reads(a, code) PROVE RpcIInv'
        BY <1>1, <2>3, <2>4 DEF Reads
    <2>5. ASSUME NEW method, AtOnce(method, "ok", a, Got(a)), NEW v, UNCHANGED <<counter, sessions, ended>>,
                 \/ v \in BOOLEAN /\ objects' = [objects EXCEPT ![a].file = v]
                 \/ v \in {"none", "approvable", "refused"} /\ objects' = [objects EXCEPT ![a].pending = v]
          PROVE  RpcIInv'
        <3>1. UNCHANGED <<up, now>>
            BY <2>5, AtOnceSays DEF configVars
        <3>2. /\ objects' \in Seq(Session) /\ Len(objects') = Len(objects)
              /\ \A i \in DOMAIN objects : objects'[i].id = objects[i].id
            BY <2>3, <2>5, ObjectEdited DEF RpcIInv
        <3>3. MapIInv'
            BY <2>5, <3>1, <3>2, MapEdited DEF RpcIInv
        <3> QED
            BY <1>0, <2>3, <2>5, <3>2, <3>3, AnsweredAtOnce
    <2>6. CASE SessionDestroy(a)
        <3>1. AtOnce("destroy", "ok", a, Got(a)) /\ sessions' = sessions \ {a} /\ ended' = ended + 1
              /\ UNCHANGED <<counter, objects>>
            BY <2>3, <2>6 DEF SessionDestroy
        <3>2. UNCHANGED <<up, now>>
            BY <3>1, AtOnceSays DEF configVars
        <3>3. MapIInv'
            BY <2>3, <3>1, <3>2, MapDestroyed DEF RpcIInv
        <3> QED
            BY <1>0, <2>3, <3>1, <3>3, AnsweredAtOnce
    <2>7. CASE FsWrite(a)
        BY <2>3, <2>5, <2>7 DEF FsWrite
    <2>8. CASE RequestPlugin(a)
        BY <2>3, <2>5, <2>8 DEF RequestPlugin
    <2>9. CASE RejectPlugin(a)
        BY <2>3, <2>5, <2>9 DEF RejectPlugin
    <2>10. CASE ApproveThrows(a)
        BY <1>1, <2>3, <2>10 DEF ApproveThrows
    <2>11. CASE FsWriteNull(a)
        <3>1. UNCHANGED <<configVars, counter, objects, sessions, up, requests, ended>>
            BY <2>11 DEF FsWriteNull, inServer
        <3>2. UNCHANGED <<configFile, calls, now>>
            BY <3>1 DEF configVars, inConfigs
        <3>3. MapIInv'
            BY <3>1, <3>2, MapSame DEF inServer
        <3>4. EventIInv'
            BY <2>3, <2>11 DEF FsWriteNull, Reply, EventIInv, ErrorsLeaveNothing, IdsFindTheirOwn
        <3>5. RequestsIInv'
            BY <1>0, <3>1, <3>2, NoRequestMoves DEF RpcIInv, RequestsIInv
        <3> QED
            BY <3>3, <3>4, <3>5 DEF RpcIInv
    <2> QED
        BY <1>6, <2>1, <2>4, <2>6, <2>7, <2>8, <2>9, <2>10, <2>11
        DEF AskSession, SessionAudit, FsSnapshot, ListPlugins, SessionDetail, FsRead, FsList
<1> QED
    BY <1>3, <1>4, <1>5, <1>6

LEMMA RequestKeeps ==
    ASSUME RpcIInv, MapIInv', EventIInv', NEW c \in Call, NEW r, requests' = [requests EXCEPT ![c] = r],
           calls' = calls, Len(objects) <= Len(objects'), Fits(r, calls[c].op, Len(objects')),
           r.method # "launch", Len(objects') + Launches <= MaxSessions
    PROVE  RpcIInv'
<1>1. Len(objects') \in Nat
    BY DEF MapIInv
<1>2. \E D : calls' \in [Call -> CallRecord(D)]
    BY DEF RpcIInv, RequestsIInv
<1>3. RequestsIInv'
    BY <1>1, <1>2, OneRequestMoves DEF RpcIInv
<1> QED
    BY <1>3 DEF RpcIInv

\* An answer is of the session it was asked of, and an error changed nothing but
\* what ErrorsLeaveNothing excepts.
LEMMA AnswerIsHonest ==
    ASSUME RpcIInv, NEW c \in Call, NEW code, Answers(c, code),
           code = "ok" \/ requests[c].method \in {"create", "execute", "save"} \/ ~Changes
    PROVE  /\ EventIInv' /\ UNCHANGED <<up, ended>>
           /\ \E r : /\ requests' = [requests EXCEPT ![c] = r] /\ r.method = "over"
                     /\ \A op : \A made \in Nat : Fits(r, op, made)
<1>1. /\ event'.method = requests[c].method /\ event'.code = code
      /\ event'.asked = requests[c].of /\ event'.got = requests[c].of
      /\ event'.changed => requests[c].changed \/ Changes
      /\ requests' = [requests EXCEPT ![c] = [Idle EXCEPT !.method = "over"]]
      /\ UNCHANGED <<up, ended>>
    BY AnswerSays
<1>2. Fits(requests[c], calls[c].op, Len(objects))
    BY DEF RpcIInv, RequestsIInv
<1>3. requests[c].of \in 0 .. MaxSessions
    BY <1>2 DEF Fits, RequestRecord
<1>4. EventIInv'
    BY <1>1, <1>2, <1>3 DEF Fits, EventIInv, ErrorsLeaveNothing, IdsFindTheirOwn
<1> DEFINE r == [Idle EXCEPT !.method = "over"]
<1>8. Idle \in RequestRecord /\ Idle.of = 0 /\ Idle.changed = FALSE
    BY RpcAssumption DEF Idle, RequestRecord
<1>9. r \in RequestRecord /\ r.method = "over" /\ r.of = Idle.of /\ r.changed = Idle.changed
    BY <1>8 DEF RequestRecord
<1>5. r \in RequestRecord /\ r.method = "over" /\ r.of = 0 /\ ~r.changed
    BY <1>8, <1>9
<1> HIDE DEF r
<1>6. \A op : \A made \in Nat : Fits(r, op, made)
    BY <1>5 DEF Fits
<1>7. requests' = [requests EXCEPT ![c] = r]
    BY <1>1 DEF r
<1> QED
    BY <1>1, <1>4, <1>5, <1>6, <1>7

\* Requests for sessions: create with a mount, execute, approve.
LEMMA WaitingKeeps ==
    ASSUME RpcIInv, NEW c \in Call, \/ CreateMounts(c) \/ MountStores(c) \/ MountSettles(c)
                                    \/ \E a \in Asked : Execute(c, a) \/ ApproveWaits(c, a)
                                    \/ CodeActs(c) \/ ExecuteSettles(c) \/ ImportSettles(c)
    PROVE  RpcIInv'
<1>0. /\ Launches \in Nat /\ MaxSessions \in Nat /\ Len(objects) \in Nat
      /\ Len(objects) + Launches <= MaxSessions
    BY RoomFacts
<1>1. /\ Fits(requests[c], calls[c].op, Len(objects)) /\ requests[c] \in RequestRecord
      /\ DOMAIN objects = 1 .. Len(objects)
    BY MapFacts DEF RpcIInv, RequestsIInv, Fits
<1>2. UNCHANGED <<configVars, calls, now>>
    BY DEF CreateMounts, MountStores, MountSettles, Execute, ApproveWaits, CodeActs, ExecuteSettles, ImportSettles,
       configVars, inConfigs
<1>3. CASE CreateMounts(c)
    <2>1. Create /\ Waits(c, "create", Len(objects) + 1) /\ Len(objects) + Launches < MaxSessions
        BY <1>3 DEF CreateMounts, MayCreate
    <2>2. up /\ event' = Silent /\ UNCHANGED <<up, ended>>
        BY <2>1, WaitSays
    <2>3. PICK r \in [method : {"create"}, of : {Len(objects) + 1}, changed : BOOLEAN] : requests' = [requests EXCEPT ![c] = r]
        BY <2>1, WaitSays
    <2>4. MapIInv' /\ Len(objects') = Len(objects) + 1
        BY <1>0, <1>2, <2>1, <2>2, MapMade DEF RpcIInv
    <2>5. Len(objects) + 1 \in 0 .. MaxSessions /\ Len(objects) <= Len(objects') /\ Len(objects') + Launches <= MaxSessions
        BY <1>0, <2>1, <2>4
    <2>6. r.method = "create" /\ r.of = Len(objects) + 1 /\ r.changed \in BOOLEAN
        OBVIOUS
    <2>7. Fits(r, calls[c].op, Len(objects'))
        BY <1>0, <2>4, <2>5, <2>6 DEF Fits, RequestRecord, Waiting
    <2> QED
        BY <1>2, <2>2, <2>3, <2>4, <2>5, <2>6, <2>7, RequestKeeps, SilentIsHonest
<1>4. ASSUME NEW method \in {"create", "execute"}, GoesOn(c, method), event' = Silent,
             UNCHANGED <<counter, sessions>>, NEW v \in BOOLEAN, objects' = [objects EXCEPT ![requests[c].of].file = v]
      PROVE  RpcIInv'
    <2>1. up /\ requests[c].method = method /\ UNCHANGED <<up, ended>>
        BY <1>1, <1>4, GoesOnSays
    <2>2. PICK r \in [method : {method}, of : {requests[c].of}, changed : BOOLEAN] : requests' = [requests EXCEPT ![c] = r]
        BY <1>1, <1>4, GoesOnSays
    <2>3. requests[c].of \in DOMAIN objects
        BY <1>1, <2>1 DEF Fits
    <2>4. /\ objects' \in Seq(Session) /\ Len(objects') = Len(objects)
          /\ \A i \in DOMAIN objects : objects'[i].id = objects[i].id
        BY <1>4, <2>3, ObjectEdited DEF RpcIInv
    <2>5. MapIInv'
        BY <1>2, <1>4, <2>1, <2>4, MapEdited DEF RpcIInv
    <2>6. r.method = method /\ r.of = requests[c].of /\ r.changed \in BOOLEAN
        OBVIOUS
    <2>7. Fits(r, calls[c].op, Len(objects'))
        BY <1>1, <2>1, <2>4, <2>6 DEF Fits, RequestRecord, Waiting
    <2>8. EventIInv' /\ r.method # "launch" /\ Len(objects) <= Len(objects') /\ Len(objects') + Launches <= MaxSessions
        BY <1>0, <1>4, <2>4, <2>6, SilentIsHonest
    <2> QED
        BY <1>2, <2>2, <2>5, <2>7, <2>8, RequestKeeps
<1>5. CASE MountStores(c)
    BY <1>4, <1>5 DEF MountStores
<1>6. CASE CodeActs(c)
    BY <1>4, <1>6 DEF CodeActs
<1>7. ASSUME NEW code, Answers(c, code), UNCHANGED inServer PROVE RpcIInv'
    <2>1. UNCHANGED configFile /\ ~Changes
        BY <1>2, <1>7, ChangesKnown DEF configVars, inConfigs
    <2>2. /\ EventIInv' /\ UNCHANGED <<up, ended>>
          /\ \E r : /\ requests' = [requests EXCEPT ![c] = r] /\ r.method = "over"
                    /\ \A op : \A made \in Nat : Fits(r, op, made)
        BY <1>7, <2>1, AnswerIsHonest
    <2>3. MapIInv' /\ objects' = objects /\ Len(objects') + Launches <= MaxSessions
        BY <1>2, <1>7, <2>2, MapSame
    <2>4. PICK r : requests' = [requests EXCEPT ![c] = r] /\ r.method = "over" /\ Fits(r, calls[c].op, Len(objects'))
        BY <1>0, <2>2, <2>3
    <2>5. r.method # "launch" /\ Len(objects) <= Len(objects')
        BY <1>0, <2>3, <2>4
    <2> QED
        BY <1>2, <2>2, <2>3, <2>4, <2>5, RequestKeeps
<1>8. CASE MountSettles(c)
    BY <1>7, <1>8 DEF MountSettles, Settles
<1>9. CASE ExecuteSettles(c)
    BY <1>7, <1>9 DEF ExecuteSettles, Settles
<1>10. ASSUME NEW a \in Asked, NEW method \in {"execute", "approve"}, Got(a) # 0, UNCHANGED inServer, Waits(c, method, Got(a))
       PROVE  RpcIInv'
    <2>1. event' = Silent /\ UNCHANGED <<up, ended>>
        BY <1>10, WaitSays
    <2>2. PICK r \in [method : {method}, of : {Got(a)}, changed : BOOLEAN] :
             requests' = [requests EXCEPT ![c] = r] /\ (r.changed => Changes)
        BY <1>10, WaitSays
    <2>3. MapIInv' /\ objects' = objects /\ Len(objects') + Launches <= MaxSessions
        BY <1>2, <1>10, <2>1, MapSame
    <2>4. ~Changes
        BY <1>2, <1>10, ChangesKnown DEF configVars, inConfigs
    <2>5. r.method = method /\ r.of = Got(a) /\ r.changed = FALSE
        BY <2>2, <2>4
    <2>6. Got(a) \in 1 .. Len(objects)
        BY <1>1, <1>10, GotIsAsked DEF RpcIInv
    <2>7. Fits(r, calls[c].op, Len(objects'))
        BY <1>0, <2>3, <2>5, <2>6 DEF Fits, RequestRecord, Waiting
    <2>8. EventIInv' /\ r.method # "launch" /\ Len(objects) <= Len(objects')
        BY <1>0, <2>1, <2>3, <2>5, SilentIsHonest
    <2> QED
        BY <1>2, <2>2, <2>3, <2>7, <2>8, RequestKeeps
<1>11. ASSUME NEW a \in Asked, Execute(c, a) \/ ApproveWaits(c, a) PROVE RpcIInv'
    BY <1>10, <1>11 DEF Execute, ApproveWaits
<1>12. CASE ImportSettles(c)
    <2>1. requests[c].method = "approve" /\ UNCHANGED <<counter, sessions>>
        BY <1>12 DEF ImportSettles
    <2>2. CASE objects' = objects /\ Answers(c, "INTERNAL_ERROR")
        BY <1>7, <2>1, <2>2 DEF inServer
    <2>3. CASE objects' = [objects EXCEPT ![requests[c].of].pending = "none"] /\ Answers(c, "ok")
        <3>1. /\ EventIInv' /\ UNCHANGED <<up, ended>>
              /\ \E r : /\ requests' = [requests EXCEPT ![c] = r] /\ r.method = "over"
                        /\ \A op : \A made \in Nat : Fits(r, op, made)
            BY <2>3, AnswerIsHonest
        <3>2. requests[c].of \in DOMAIN objects
            BY <1>1, <2>1 DEF Fits
        <3>3. /\ objects' \in Seq(Session) /\ Len(objects') = Len(objects)
              /\ \A i \in DOMAIN objects : objects'[i].id = objects[i].id
            BY <2>3, <3>2, ObjectEdited DEF RpcIInv
        <3>4. MapIInv'
            BY <1>2, <2>1, <3>1, <3>3, MapEdited DEF RpcIInv
        <3>5. PICK r : requests' = [requests EXCEPT ![c] = r] /\ r.method = "over" /\ Fits(r, calls[c].op, Len(objects'))
            BY <1>0, <3>1, <3>3
        <3>6. r.method # "launch" /\ Len(objects) <= Len(objects') /\ Len(objects') + Launches <= MaxSessions
            BY <1>0, <3>3, <3>5
        <3> QED
            BY <1>2, <3>1, <3>4, <3>5, <3>6, RequestKeeps
    <2> QED
        BY <1>12, <2>2, <2>3 DEF ImportSettles, Settles
<1> QED
    BY <1>3, <1>5, <1>6, <1>8, <1>9, <1>11, <1>12

----------------------------------------------------------------------------
(* The methods: configurations, and time.                                  *)

LEMMA StoreMoves ==
    ASSUME RpcIInv, NEW c \in Call,
           SaveMadeDir(c) \/ FileExists(c) \/ ReadJson(c) \/ WriteBegins(c) \/ WriteEnds(c) \/ SaveFails(c) \/ ListReads(c)
    PROVE  now' = now /\ OpsAfter(calls[c].op, c) /\ (calls[c].op = "save" \/ configFile' = configFile)
<1>1. now' = now
    BY DEF SaveMadeDir, FileExists, ReadJson, WriteBegins, WriteEnds, SaveFails, ListReads
<1>2. PICK D : calls \in [Call -> CallRecord(D)]
    BY DEF RpcIInv, RequestsIInv
<1>3. /\ SaveMadeDir(c) \/ FileExists(c) \/ ReadJson(c) \/ SaveFails(c) \/ ListReads(c) =>
           OpsAfter(calls[c].op, c) /\ configFile' = configFile
      /\ WriteBegins(c) \/ WriteEnds(c) => OpsAfter("save", c) /\ calls[c].op = "save"
    BY <1>2, StoreSteps
<1> QED
    BY <1>1, <1>3

\* Only a save leaves something behind in the store.
LEMMA OnlySavesWrite ==
    ASSUME RpcIInv, NEW c \in Call, AskedConfigs(c), calls[c].op = "save" \/ configFile' = configFile, UNCHANGED inServer
    PROVE  Changes => requests[c].method = "save"
<1>1. Fits(requests[c], calls[c].op, Len(objects))
    BY DEF RpcIInv, RequestsIInv
<1>2. calls[c].op = "save" => requests[c].method = "save"
    BY <1>1 DEF Fits, AskedConfigs
<1> QED
    BY <1>2, ChangesKnown

\* What became of the request and of its call keeps the invariant.
LEMMA ConfigMoves ==
    ASSUME RpcIInv, MapIInv', EventIInv', NEW c \in Call, NEW r, requests' = [requests EXCEPT ![c] = r], NEW op,
           OpsAfter(op, c), Len(objects) <= Len(objects'), Fits(r, op, Len(objects')), Fits(r, "none", Len(objects')),
           \/ (r.method # "launch" \/ requests[c].method = "launch") /\ Len(objects') = Len(objects)
           \/ r.method # "launch" /\ requests[c].method = "launch" /\ Len(objects') = Len(objects) + 1
           \/ Len(objects') + Launches < MaxSessions
    PROVE  RpcIInv'
<1>1. Len(objects') \in Nat
    BY DEF MapIInv
<1>2. /\ \E D : calls' \in [Call -> CallRecord(D)]
      /\ \A d \in Call \ {c} : calls'[d].op = calls[d].op
      /\ Fits(r, calls'[c].op, Len(objects'))
    BY DEF OpsAfter
<1>3. RequestsIInv'
    BY <1>1, <1>2, OneRequestMoves DEF RpcIInv
<1> QED
    BY <1>3 DEF RpcIInv

LEMMA ConfigKeeps ==
    ASSUME RpcIInv, NEW c \in Call, ConfigRequest(c) \/ ConfigGoesOn(c) \/ ConfigAnswers(c) \/ ConfigLaunch(c)
    PROVE  RpcIInv'
<1>0. /\ Launches \in Nat /\ MaxSessions \in Nat /\ Len(objects) \in Nat
      /\ Len(objects) + Launches <= MaxSessions
    BY RoomFacts
<1>1. Fits(requests[c], calls[c].op, Len(objects)) /\ requests[c] \in RequestRecord
    BY DEF RpcIInv, RequestsIInv, Fits
<1>2. CASE ConfigRequest(c)
    <2>1. UNCHANGED inServer
        BY <1>2 DEF ConfigRequest
    <2>2. PICK method \in {"save", "get", "list", "launch"} :
             /\ method = "launch" => MayCreate
             /\ ConfigCall(c, IF method = "launch" THEN "get" ELSE method) /\ Waits(c, method, 0)
        BY <1>2 DEF ConfigRequest
    <2> DEFINE op == IF method = "launch" THEN "get" ELSE method
    <2>3. op \in {"save", "get", "list"} /\ (op = "save" => method = "save")
        OBVIOUS
    <2>4. ConfigCall(c, op)
        BY <2>2
    <2> HIDE DEF op
    <2>5. OpsAfter(op, c) /\ configFile' = configFile /\ now' = now
        <3>1. PICK D : calls \in [Call -> CallRecord(D)]
            BY DEF RpcIInv, RequestsIInv
        <3>2. \A o \in {"save", "get", "list"} : ConfigCall(c, o) => OpsAfter(o, c) /\ configFile' = configFile
            BY <3>1, StoreSteps
        <3> QED
            BY <2>3, <2>4, <3>2 DEF ConfigCall
    <2>6. event' = Silent /\ UNCHANGED <<up, ended>> /\ requests[c] = Idle
        BY <2>2, WaitSays
    <2>7. PICK r \in [method : {method}, of : {0}, changed : BOOLEAN] :
             requests' = [requests EXCEPT ![c] = r] /\ (r.changed => Changes)
        BY <2>2, WaitSays
    <2>8. MapIInv' /\ objects' = objects
        BY <2>1, <2>5, <2>6, MapSame
    <2>9. ~Changes
        BY <2>1, <2>5, ChangesKnown
    <2>10. r.method = method /\ r.of = 0 /\ r.changed = FALSE
        BY <2>7, <2>9
    <2>11. r \in RequestRecord
        BY <1>0, <2>7 DEF RequestRecord, Waiting
    <2>12. Fits(r, op, Len(objects')) /\ Fits(r, "none", Len(objects'))
        BY <1>0, <2>3, <2>8, <2>10, <2>11 DEF Fits
    <2>13. method = "launch" => Len(objects') + Launches < MaxSessions
        BY <2>2, <2>8 DEF MayCreate
    <2>14. EventIInv' /\ Len(objects) <= Len(objects')
        BY <1>0, <2>6, <2>8, SilentIsHonest
    <2> QED
        BY <2>5, <2>7, <2>8, <2>10, <2>12, <2>13, <2>14, ConfigMoves
<1>3. CASE ConfigGoesOn(c)
    <2>1. /\ AskedConfigs(c) /\ GoesOn(c, requests[c].method) /\ event' = Silent /\ UNCHANGED inServer
          /\ SaveMadeDir(c) \/ FileExists(c) \/ ReadJson(c) \/ WriteBegins(c)
        BY <1>3 DEF ConfigGoesOn
    <2>2. now' = now /\ OpsAfter(calls[c].op, c) /\ (calls[c].op = "save" \/ configFile' = configFile)
        BY <2>1, StoreMoves
    <2>3. UNCHANGED <<up, ended>>
        BY <1>1, <2>1, GoesOnSays
    <2>4. PICK r \in [method : {requests[c].method}, of : {requests[c].of}, changed : BOOLEAN] :
             requests' = [requests EXCEPT ![c] = r] /\ (r.changed => requests[c].changed \/ Changes)
        BY <1>1, <2>1, GoesOnSays
    <2>5. MapIInv' /\ objects' = objects
        BY <2>1, <2>2, <2>3, MapSame
    <2>6. Changes => requests[c].method = "save"
        BY <2>1, <2>2, OnlySavesWrite
    <2>7. r.method = requests[c].method /\ r.of = requests[c].of /\ r \in RequestRecord
        BY <1>1, <2>4 DEF RequestRecord
    <2>8. r.changed => r.method \in {"create", "execute", "save"}
        BY <1>1, <2>4, <2>6, <2>7 DEF Fits
    <2>9. Fits(r, calls[c].op, Len(objects')) /\ Fits(r, "none", Len(objects'))
        BY <1>1, <2>5, <2>7, <2>8 DEF Fits
    <2>10. EventIInv' /\ Len(objects) <= Len(objects') /\ Len(objects') = Len(objects)
        BY <1>0, <2>1, <2>5, SilentIsHonest
    <2> QED
        BY <2>2, <2>4, <2>5, <2>7, <2>9, <2>10, ConfigMoves
<1>4. ASSUME NEW code, Answers(c, code), UNCHANGED inServer, AskedConfigs(c),
             FileExists(c) \/ ReadJson(c) \/ WriteEnds(c) \/ SaveFails(c) \/ ListReads(c)
      PROVE  RpcIInv'
    <2>1. now' = now /\ OpsAfter(calls[c].op, c) /\ (calls[c].op = "save" \/ configFile' = configFile)
        BY <1>4, StoreMoves
    <2>2. code = "ok" \/ requests[c].method \in {"create", "execute", "save"} \/ ~Changes
        BY <1>4, <2>1, OnlySavesWrite
    <2>3. /\ EventIInv' /\ UNCHANGED <<up, ended>>
          /\ \E r : /\ requests' = [requests EXCEPT ![c] = r] /\ r.method = "over"
                    /\ \A op : \A made \in Nat : Fits(r, op, made)
        BY <1>4, <2>2, AnswerIsHonest
    <2>4. MapIInv' /\ objects' = objects
        BY <1>4, <2>1, <2>3, MapSame
    <2>5. PICK r : /\ requests' = [requests EXCEPT ![c] = r] /\ r.method = "over"
                   /\ \A op : \A made \in Nat : Fits(r, op, made)
        BY <2>3
    <2>6. /\ Fits(r, calls[c].op, Len(objects')) /\ Fits(r, "none", Len(objects')) /\ r.method # "launch"
          /\ Len(objects) <= Len(objects') /\ Len(objects') = Len(objects)
        BY <1>0, <2>4, <2>5
    <2> QED
        BY <2>1, <2>3, <2>4, <2>5, <2>6, ConfigMoves
<1>5. CASE ConfigAnswers(c)
    BY <1>4, <1>5 DEF ConfigAnswers
<1>6. CASE ConfigLaunch(c)
    <2>1. AskedConfigs(c) /\ requests[c].method = "launch" /\ (FileExists(c) \/ ReadJson(c))
        BY <1>6 DEF ConfigLaunch
    <2>2. CASE UNCHANGED inServer /\ (Answers(c, "CONFIG_NOT_FOUND") \/ Answers(c, "INTERNAL_ERROR"))
        BY <1>4, <2>1, <2>2
    <2>3. CASE Create /\ Answers(c, "ok")
        <3>1. now' = now /\ OpsAfter(calls[c].op, c)
            BY <2>1, StoreMoves
        <3>2. /\ EventIInv' /\ UNCHANGED <<up, ended>>
              /\ \E r : /\ requests' = [requests EXCEPT ![c] = r] /\ r.method = "over"
                        /\ \A op : \A made \in Nat : Fits(r, op, made)
            BY <2>3, AnswerIsHonest
        <3>3. PICK r : /\ requests' = [requests EXCEPT ![c] = r] /\ r.method = "over"
                       /\ \A op : \A made \in Nat : Fits(r, op, made)
            BY <3>2
        <3>4. Launches' \in Nat /\ Launches' = Launches - 1
            <4>1. requests \in [Call -> RequestRecord]
                BY DEF RpcIInv, RequestsIInv
            <4> QED
                BY <2>1, <3>3, <4>1, LaunchesCounted
        <3>5. Len(objects) < MaxSessions
            BY <1>0, <3>4
        <3>6. up
            BY <2>1 DEF AskedConfigs
        <3>7. MapIInv' /\ Len(objects') = Len(objects) + 1
            BY <2>3, <3>1, <3>2, <3>5, <3>6, MapMade DEF RpcIInv
        <3>8. /\ Fits(r, calls[c].op, Len(objects')) /\ Fits(r, "none", Len(objects')) /\ r.method # "launch"
              /\ Len(objects) <= Len(objects')
            BY <1>0, <3>3, <3>7
        <3> QED
            BY <2>1, <3>1, <3>2, <3>3, <3>7, <3>8, ConfigMoves
    <2> QED
        BY <1>6, <2>2, <2>3 DEF ConfigLaunch
<1> QED
    BY <1>2, <1>3, <1>5, <1>6

\* A configuration is deleted, the server stops or starts, or time passes.
LEMMA TimeKeeps ==
    ASSUME RpcIInv, DeleteConfig \/ ServerStops \/ ServerStarts \/ TimePasses
    PROVE  RpcIInv'
<1>0. /\ Launches \in Nat /\ MaxSessions \in Nat /\ Len(objects) \in Nat
      /\ Len(objects) + Launches <= MaxSessions
    BY RoomFacts
<1>1. ASSUME MapIInv', EventIInv', objects' = objects, requests' = requests,
             \E D : calls' \in [Call -> CallRecord(D)], \A d \in Call : calls'[d].op = calls[d].op
      PROVE  RpcIInv'
    <2>1. Len(objects') \in Nat /\ Len(objects) <= Len(objects') /\ Len(objects') + Launches <= MaxSessions
        BY <1>0, <1>1
    <2>2. RequestsIInv'
        BY <1>1, <2>1, NoRequestMoves DEF RpcIInv
    <2> QED
        BY <1>1, <2>2 DEF RpcIInv
<1>2. PICK D : calls \in [Call -> CallRecord(D)]
    BY DEF RpcIInv, RequestsIInv
<1>3. CASE DeleteConfig
    <2>1. UNCHANGED <<inServer, up, requests, ended, now>> /\ calls' = Raced(None)
        BY <1>3 DEF DeleteConfig, ConfigDelete
    <2>2. MapIInv' /\ objects' = objects
        BY <2>1, MapSame
    <2>3. ASSUME NEW d \in Call PROVE calls'[d] \in CallRecord(D) /\ calls'[d].op = calls[d].op
        <3> DEFINE b == calls[d].raced \/ (d # None /\ calls[d].at \in {"json", "write", "writing"})
        <3>1. calls'[d] = [calls[d] EXCEPT !.raced = b]
            BY <2>1 DEF Raced
        <3>2. b \in BOOLEAN /\ calls[d] \in CallRecord(D)
            BY <1>2 DEF CallRecord
        <3> HIDE DEF b
        <3> QED
            BY <3>1, <3>2 DEF CallRecord
    <2>4. calls' \in [Call -> CallRecord(D)]
        <3>1. calls' = [d \in Call |-> calls'[d]]
            BY <2>1 DEF Raced
        <3> QED
            BY <2>3, <3>1
    <2>5. event'.code = "ok" /\ event'.asked = 0 /\ event'.got = 0
        BY <1>3 DEF DeleteConfig, Reply
    <2>6. EventIInv'
        BY <1>0, <2>5 DEF EventIInv, ErrorsLeaveNothing, IdsFindTheirOwn
    <2> QED
        BY <1>1, <2>1, <2>2, <2>3, <2>4, <2>6
<1>4. CASE ServerStarts \/ TimePasses
    <2>1. UNCHANGED <<inConfigs, inServer, requests>> /\ event' = Silent
        BY <1>4 DEF ServerStarts, TimePasses, ConfigTick
    <2>2. MapIInv' /\ EventIInv' /\ calls' = calls /\ objects' = objects
        BY <1>4, <2>1, MapInTime, SilentIsHonest DEF RpcIInv, inConfigs, inServer
    <2> QED
        BY <1>1, <1>2, <2>1, <2>2
<1>5. CASE ServerStops
    <2>1. /\ objects' = objects /\ event' = Silent
          /\ calls' = [c \in Call |-> IF calls[c] = NotCalled THEN NotCalled ELSE Over("lost")]
          /\ requests' = [c \in Call |-> IF requests[c] = Idle THEN Idle ELSE [Idle EXCEPT !.method = "over"]]
        BY <1>5 DEF ServerStops, Restart
    <2>2. MapIInv' /\ EventIInv'
        BY <1>5, <2>1, MapInTime, SilentIsHonest DEF RpcIInv
    <2>3. NotCalled \in CallRecord({None}) /\ Over("lost") \in CallRecord({None})
        BY DEF Over, NotCalled, CallRecord, CallStep
    <2>4. calls' \in [Call -> CallRecord({None})]
        BY <2>1, <2>3
    <2>5. /\ Idle \in RequestRecord /\ Idle.method = "none" /\ Idle.of = 0 /\ Idle.changed = FALSE
        BY <1>0 DEF Idle, RequestRecord
    <2> DEFINE lost == [Idle EXCEPT !.method = "over"]
    <2>6. lost \in RequestRecord /\ lost.method = "over" /\ lost.of = Idle.of /\ lost.changed = Idle.changed
        BY <2>5 DEF RequestRecord
    <2>7. \A c \in Call : requests'[c] \in {Idle, lost}
        BY <2>1
    <2>8. requests' = [c \in Call |-> requests'[c]]
        BY <2>1
    <2> HIDE DEF lost
    <2>9. ASSUME NEW c \in Call
          PROVE  requests'[c] \in RequestRecord /\ requests'[c].method # "launch" /\ Fits(requests'[c], calls'[c].op, Len(objects'))
        <3>1. PICK r \in {Idle, lost} : requests'[c] = r
            BY <2>7
        <3>2. r \in RequestRecord /\ r.method \in {"none", "over"} /\ r.of = 0 /\ r.changed = FALSE
            BY <2>5, <2>6
        <3>3. \A op : \A made \in Nat : Fits(r, op, made)
            BY <3>2 DEF Fits
        <3>4. Fits(r, calls'[c].op, Len(objects'))
            BY <1>0, <2>1, <3>3
        <3> QED
            BY <3>1, <3>2, <3>4
    <2>10. requests' \in [Call -> RequestRecord]
        BY <2>8, <2>9
    <2>11. Launches' = 0
        <3>1. {c \in Call : requests'[c].method = "launch"} = {}
            BY <2>9
        <3> QED
            BY <3>1, FS_EmptySet DEF Launches
    <2>12. RequestsIInv'
        BY <1>0, <2>1, <2>4, <2>9, <2>10, <2>11 DEF RequestsIInv
    <2> QED
        BY <2>2, <2>12 DEF RpcIInv
<1> QED
    BY <1>3, <1>4, <1>5

LEMMA RpcInvariant == RpcSpec => []RpcIInv
<1>1. RpcInit => RpcIInv
    <2> SUFFICES ASSUME RpcInit PROVE RpcIInv
        OBVIOUS
    <2>1. /\ up = TRUE /\ counter = 0 /\ objects = <<>> /\ sessions = {} /\ ended = 0 /\ now = 0
          /\ requests = [c \in Call |-> Idle] /\ event = Silent /\ calls = [c \in Call |-> NotCalled]
        BY DEF RpcInit, ConfigInit
    <2>2. MaxSessions \in Nat /\ MaxTime \in Nat
        BY RpcAssumption, ClockAssumption
    <2>3. SessionsAddUp
        BY <2>1, FS_EmptySet DEF SessionsAddUp
    <2>4. objects \in Seq(Session) /\ DOMAIN objects = {} /\ Len(objects) = 0
        BY <2>1
    <2>5. MapIInv
        BY <2>1, <2>2, <2>3, <2>4 DEF MapIInv
    <2>6. EventIInv
        BY <2>1, <2>2 DEF EventIInv, Silent, ErrorsLeaveNothing, IdsFindTheirOwn
    <2>7. NotCalled \in CallRecord({None})
        BY DEF NotCalled, CallRecord, CallStep
    <2>8. calls \in [Call -> CallRecord({None})]
        BY <2>1, <2>7
    <2>9. Idle \in RequestRecord /\ Idle.method = "none" /\ Idle.of = 0 /\ Idle.changed = FALSE
        BY <2>2 DEF Idle, RequestRecord
    <2>10. requests \in [Call -> RequestRecord] /\ \A c \in Call : requests[c] = Idle
        BY <2>1, <2>9
    <2>11. Launches = 0
        <3>1. {c \in Call : requests[c].method = "launch"} = {}
            BY <2>9, <2>10
        <3> QED
            BY <3>1, FS_EmptySet DEF Launches
    <2>12. \A c \in Call : Fits(requests[c], calls[c].op, Len(objects))
        BY <2>4, <2>9, <2>10 DEF Fits
    <2>13. RequestsIInv
        BY <2>2, <2>4, <2>8, <2>10, <2>11, <2>12 DEF RequestsIInv
    <2> QED
        BY <2>5, <2>6, <2>13 DEF RpcIInv
<1>2. RpcIInv /\ [RpcNext]_rpcVars => RpcIInv'
    <2> SUFFICES ASSUME RpcIInv, [RpcNext]_rpcVars PROVE RpcIInv'
        OBVIOUS
    <2>1. CASE UNCHANGED rpcVars
        <3>1. UNCHANGED <<configFile, calls, lineage, now, counter, objects, sessions, up, requests, event, ended>>
            BY <2>1 DEF rpcVars, configVars, inConfigs, inServer
        <3>2. MapIInv'
            BY <3>1 DEF RpcIInv, MapIInv, SessionsAddUp
        <3>3. RequestsIInv'
            BY <3>1 DEF RpcIInv, RequestsIInv, Launches
        <3>4. EventIInv'
            BY <3>1 DEF RpcIInv, EventIInv, ErrorsLeaveNothing, IdsFindTheirOwn
        <3> QED
            BY <3>2, <3>3, <3>4 DEF RpcIInv
    <2>2. CASE \/ RefuseBody \/ RefuseMethod \/ RefuseParams \/ Overview \/ SessionCreate
               \/ \E a \in Asked : AskSession(a)
        BY <2>2, AtOnceKeeps
    <2>3. ASSUME NEW c \in Call, \/ CreateMounts(c) \/ MountStores(c) \/ MountSettles(c)
                                 \/ \E a \in Asked : Execute(c, a) \/ ApproveWaits(c, a)
                                 \/ CodeActs(c) \/ ExecuteSettles(c) \/ ImportSettles(c)
          PROVE  RpcIInv'
        BY <2>3, WaitingKeeps
    <2>4. ASSUME NEW c \in Call, ConfigRequest(c) \/ ConfigGoesOn(c) \/ ConfigAnswers(c) \/ ConfigLaunch(c)
          PROVE  RpcIInv'
        BY <2>4, ConfigKeeps
    <2>5. CASE DeleteConfig \/ ServerStops \/ ServerStarts \/ TimePasses
        BY <2>5, TimeKeeps
    <2> QED
        BY <2>1, <2>2, <2>3, <2>4, <2>5 DEF RpcNext
<1> QED
    BY <1>1, <1>2, PTL DEF RpcSpec

----------------------------------------------------------------------------
(* What the server promises.                                               *)

\* The methods, however they overlap, fail or are cut off by a restart: what fails
\* has changed nothing it should not, an id finds its own session or none, and every
\* session is live or was destroyed by exactly one answer (handler.ts, session.ts).
THEOREM MethodsCanBeReliedOn == RpcSpec => []AnswersCanBeReliedOn
<1>1. RpcIInv => AnswersCanBeReliedOn
    <2> SUFFICES ASSUME RpcIInv PROVE AnswersCanBeReliedOn
        OBVIOUS
    <2>1. /\ Launches \in Nat /\ MaxSessions \in Nat /\ Len(objects) \in Nat
          /\ Len(objects) + Launches <= MaxSessions /\ IsFiniteSet(sessions)
        BY RoomFacts, MapFacts DEF RpcIInv
    <2>2. counter \in Nat /\ counter <= Len(objects) /\ SessionsAddUp /\ ended \in Nat
        BY DEF RpcIInv, MapIInv
    <2>3. Cardinality(sessions) \in Nat
        BY <2>1, FS_CardinalityType
    <2>4. counter \in 0 .. MaxSessions /\ ended \in 0 .. MaxSessions
        BY <2>1, <2>2, <2>3 DEF SessionsAddUp
    <2>5. RpcTypeOK
        BY <2>4 DEF RpcTypeOK, RpcIInv, MapIInv, RequestsIInv, RequestRecord, EventIInv
    <2> QED
        BY <2>2, <2>5 DEF AnswersCanBeReliedOn, RpcIInv, EventIInv
<1> QED
    BY <1>1, RpcInvariant, PTL

\* The same of the specification the run checks, in which an agent's run moves or
\* the methods do.
THEOREM ServerCanBeReliedOn == ServerSpec => []AnswersCanBeReliedOn
<1>1. ServerInit => RpcInit
    BY DEF ServerInit
<1>2. [ServerNext]_serverVars => [RpcNext]_rpcVars
    BY DEF ServerNext, serverVars
<1>3. ServerSpec => RpcSpec
    BY <1>1, <1>2, PTL DEF ServerSpec, RpcSpec
<1> QED
    BY <1>3, MethodsCanBeReliedOn, PTL

=============================================================================

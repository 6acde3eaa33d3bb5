-------------------------------- MODULE Repl --------------------------------
(***************************************************************************)
(* The TypeScript shell (src/repl/repl.ts, tui.ts, typecheck.ts): what is  *)
(* typed is checked in the background after a pause, what is submitted is  *)
(* checked and then evaluated, and nothing keeps the next line waiting for *)
(* the one before.  All checks go through one file, .typecheck-tmp/        *)
(* check.ts, which tsc reads some time after it was written.  The editor   *)
(* (pi-tui) is external: it clears itself when a line is submitted, and    *)
(* may or may not report a text that the program puts into it.             *)
(***************************************************************************)
EXTENDS Naturals, FiniteSets, Nothing

CONSTANTS
  Code,       \* the texts that are code
  IllTyped,   \* those that tsc finds errors in
  Binds,      \* those of the form "const x = ...": all bind one variable
  Single,     \* those that are one expression or statement
  Line,       \* the lines that are submitted, in their order: 1 .. bound
  MaxChecks   \* bound: background checks

Empty == "empty"
DotCommand == "dot"

ASSUME ReplAssumption ==
  /\ IllTyped \subseteq Code /\ Binds \subseteq Code /\ Single \subseteq Code \ Binds
  /\ MaxChecks \in Nat /\ IsFiniteSet(Line) /\ Line = 1 .. Cardinality(Line)
  /\ Code \cap {Empty, DotCommand, None} = {} /\ None \notin Line

VARIABLES
  text,        \* the text of the editor
  badge,       \* statusBar.status
  checkTimer,  \* None, or the text that will be checked
  checkVersion,\* the number of the newest background check
  checkFile,   \* what check.ts holds
  inBackground,\* the background checks that run: [version, saw], saw None until tsc has read
  lines,       \* line -> how far it is
  submitted,   \* how many lines have been
  bound        \* None, or the line whose value userVars holds for the variable

replVars ==
  <<text, badge, checkTimer, checkVersion, checkFile, inBackground, lines, submitted, bound>>

\* saw: what tsc read for it.  excused: tsc failed or took too long.  others: something
\* was typed or submitted while it was being checked.  with: the lines that were in
\* flight with it.  runs: how often its code has begun to run.
NoLine ==
  [at |-> "none", code |-> None, saw |-> None, excused |-> FALSE, others |-> FALSE, with |-> {}, runs |-> 0]

InFlight == {l \in Line : lines[l].at \in {"checking", "running", "again"}}
Checking == {l \in Line : lines[l].at = "checking"}

ReplInit ==
  /\ text = Empty /\ badge = "idle" /\ checkTimer = None /\ checkVersion = 0 /\ checkFile = None
  /\ inBackground = {} /\ lines = [l \in Line |-> NoLine] /\ submitted = 0 /\ bound = None

-----------------------------------------------------------------------------
\* editor.onChange: an empty text or a dot command stops no timer.
Changed(new) ==
  IF new \in {Empty, DotCommand}
  THEN badge' = "idle" /\ UNCHANGED <<checkTimer, checkVersion>>
  ELSE badge' = "checking" /\ checkTimer' = new /\ checkVersion' = checkVersion + 1

Types(new) ==
  /\ checkVersion < MaxChecks /\ new # text
  /\ text' = new /\ Changed(new)
  /\ lines' = [l \in Line |-> [lines[l] EXCEPT !.others = @ \/ l \in Checking]]
  /\ UNCHANGED <<checkFile, inBackground, submitted, bound>>

\* The pause is over: typeCheck() writes the file and starts tsc.
CheckStarts ==
  /\ checkTimer # None /\ checkTimer' = None
  /\ checkFile' = checkTimer /\ inBackground' = inBackground \cup {[version |-> checkVersion, saw |-> None]}
  /\ UNCHANGED <<text, badge, checkVersion, lines, submitted, bound>>

CheckReads(c) ==
  /\ c.saw = None /\ inBackground' = (inBackground \ {c}) \cup {[c EXCEPT !.saw = checkFile]}
  /\ UNCHANGED <<text, badge, checkTimer, checkVersion, checkFile, lines, submitted, bound>>

\* tsc has answered, or failed, or was killed after five seconds: the last two pass.
Verdict(saw) == IF saw \in IllTyped THEN "error" ELSE "ok"

CheckReturns(c) ==
  /\ inBackground' = inBackground \ {c}
  /\ badge' \in IF c.version # checkVersion THEN {badge}
                ELSE (IF c.saw = None THEN {"ok"} ELSE {"ok", Verdict(c.saw)})
  /\ UNCHANGED <<text, checkTimer, checkVersion, checkFile, lines, submitted, bound>>

-----------------------------------------------------------------------------
\* The editor's text is set to nothing, which it may report.
Cleared(status) ==
  /\ text' = Empty /\ badge' \in {status, "idle"} /\ UNCHANGED <<checkTimer, checkVersion>>

\* editor.onSubmit with a dot command: answered at once.
SubmitsDot ==
  /\ text = DotCommand /\ Cleared("idle")
  /\ UNCHANGED <<checkFile, inBackground, lines, submitted, bound>>

\* With code: the file is written and tsc started.
Submits ==
  /\ text \in Code /\ submitted + 1 \in Line
  /\ submitted' = submitted + 1 /\ text' = Empty /\ badge' = "checking"
  /\ checkFile' = text
  /\ lines' = [l \in Line |->
                 IF l = submitted + 1 THEN [NoLine EXCEPT !.at = "checking", !.code = text, !.with = InFlight]
                 ELSE IF l \in InFlight THEN [lines[l] EXCEPT !.others = TRUE, !.with = @ \cup {submitted + 1}]
                 ELSE lines[l]]
  /\ UNCHANGED <<checkTimer, checkVersion, inBackground, bound>>

LineReads(l) ==
  /\ lines[l].at = "checking" /\ lines[l].saw = None
  /\ lines' = [lines EXCEPT ![l].saw = checkFile]
  /\ UNCHANGED <<text, badge, checkTimer, checkVersion, checkFile, inBackground, submitted, bound>>

LineEnds(l, how, status) ==
  /\ lines' = [lines EXCEPT ![l].at = how]
  /\ Cleared(status)

\* Errors: they are shown and nothing is run.
Refuses(l) ==
  /\ lines[l].at = "checking" /\ lines[l].saw \in IllTyped
  /\ LineEnds(l, "refused", "error")
  /\ UNCHANGED <<checkFile, inBackground, submitted, bound>>

\* None, or no answer of tsc at all: evaluate() runs the code.
Evaluates(l, failed) ==
  /\ lines[l].at = "checking" /\ (failed \/ (lines[l].saw # None /\ lines[l].saw \notin IllTyped))
  /\ lines' = [lines EXCEPT ![l].at = "running", ![l].runs = 1, ![l].excused = failed]
  /\ UNCHANGED <<text, badge, checkTimer, checkVersion, checkFile, inBackground, submitted, bound>>

\* A declaration's value is kept under its name.
Returns(l) ==
  /\ lines[l].at \in {"running", "again"}
  /\ bound' = IF lines[l].code \in Binds THEN l ELSE bound
  /\ LineEnds(l, "done", "ok")
  /\ UNCHANGED <<checkFile, inBackground, submitted>>

\* What is no declaration and no block is tried as an expression and then, whatever
\* it threw and whatever it had done, as a statement.
Throws(l) ==
  /\ lines[l].at = "running" /\ lines[l].code \in Single
  /\ lines' = [lines EXCEPT ![l].at = "again", ![l].runs = @ + 1]
  /\ UNCHANGED <<text, badge, checkTimer, checkVersion, checkFile, inBackground, submitted, bound>>

Fails(l) ==
  /\ lines[l].at = "again" \/ (lines[l].at = "running" /\ lines[l].code \notin Single)
  /\ LineEnds(l, "failed", "error")
  /\ UNCHANGED <<checkFile, inBackground, submitted, bound>>

LineGoesOn(l) ==
  LineReads(l) \/ Refuses(l) \/ (\E failed \in BOOLEAN : Evaluates(l, failed)) \/ Returns(l) \/ Throws(l) \/ Fails(l)

ReplNext ==
  \/ \E new \in Code \cup {Empty, DotCommand} : Types(new)
  \/ CheckStarts \/ \E c \in inBackground : CheckReads(c) \/ CheckReturns(c)
  \/ SubmitsDot \/ Submits
  \/ \E l \in Line : LineGoesOn(l)

ReplSpec == ReplInit /\ [][ReplNext]_replVars
-----------------------------------------------------------------------------
ReplTypeOK ==
  /\ text \in Code \cup {Empty, DotCommand} /\ badge \in {"idle", "checking", "ok", "error"}
  /\ {checkTimer, checkFile} \subseteq Code \cup {None} /\ checkVersion \in 0 .. MaxChecks
  /\ inBackground \subseteq [version : 1 .. MaxChecks, saw : Code \cup {None}]
  /\ lines \in [Line -> [at : {"none", "checking", "running", "again", "refused", "done", "failed"},
                          code : Code \cup {None}, saw : Code \cup {None}, excused : BOOLEAN,
                          others : BOOLEAN, with : SUBSET Line, runs : 0 .. 2]]
  /\ submitted \in 0 .. Cardinality(Line) /\ bound \in Line \cup {None}

\* A line that runs after a verdict of tsc runs after the verdict on itself, when
\* nothing else was typed or submitted until it had one: the background check that
\* its own typing left behind never puts another text into check.ts.
VerdictIsOwn ==
  \A l \in Line : lines[l].runs > 0 /\ ~lines[l].excused /\ ~lines[l].others => lines[l].saw = lines[l].code

\* A line's value is not overwritten by that of an earlier line, unless the two were
\* in flight together (userVars is written when the code has returned).
LatestBinding ==
  bound # None => \A l \in Line :
    l > bound /\ lines[l].at = "done" /\ lines[l].code \in Binds => l \in lines[bound].with

\* guide.md:1617, "If errors -> blocks execution": code that tsc finds errors in does
\* not run, as long as tsc answers (typecheck.ts lets it pass when tsc does not).
IllTypedNeverRuns ==
  \A l \in Line : lines[l].runs > 0 /\ ~lines[l].excused => lines[l].code \notin IllTyped
=============================================================================

------------------------------ MODULE Terminal ------------------------------
(***************************************************************************)
(* The raw line editor of the shell (src/repl/terminal.ts): keys edit a    *)
(* line, brackets that stay open ask for more lines, history is recalled,  *)
(* and a pause starts a background check whose verdict colours the prompt. *)
(* A line is a sequence of characters; a check is kept as its number and   *)
(* whether what it checks is still what is shown.                          *)
(***************************************************************************)
EXTENDS Integers, SequencesExt, FiniteSets, Nothing

CONSTANTS
  Typeable,    \* the characters that are typed
  MaxLine,     \* bound: characters that are typed into a line
  MaxText,     \* bound: characters of a text of several lines
  MaxHistory,  \* bound: entries of the history
  MaxPreChecks \* bound: checks that are scheduled

Break == "\n"     \* between the lines of a text
Literal == "\\n"  \* what the history has in its place
Letter == Typeable \cup {Break, Literal}

ASSUME TerminalAssumption ==
  /\ {MaxLine, MaxText, MaxHistory, MaxPreChecks} \subseteq Nat
  /\ None \notin Seq(Letter) /\ None \notin [shown : BOOLEAN]

VARIABLES
  buffer, cursor,   \* the line and how many of its characters are before the cursor
  history, historyIndex,  \* historyIndex is 0 where the code has -1
  savedBuffer,      \* the line that was left for the history
  multiLineBuffer,  \* None, or, while inMultiLine, the lines before
  braceDepth, parenDepth,
  escBuffer,        \* None, or, while inEscape, what has come since the ESC
  open,             \* FALSE when the terminal has been closed
  promptStatus,     \* "idle", "ok" or "error"
  preCheckTimer,    \* None, or [shown]: a check that waits for the pause to end
  preCheckVersion,  \* the number of the newest check
  preChecks,        \* those that run: [version, shown]
  judged,           \* promptStatus is about what is shown
  unscheduled       \* since the newest check was scheduled the line has changed without one

lineVars == <<buffer, cursor>>
historyVars == <<history, historyIndex, savedBuffer>>
depthVars == <<multiLineBuffer, braceDepth, parenDepth>>
checkVars == <<promptStatus, preCheckTimer, preCheckVersion, preChecks, judged, unscheduled>>
terminalVars == <<lineVars, historyVars, depthVars, escBuffer, open, checkVars>>

TerminalInit ==
  /\ buffer = <<>> /\ cursor = 0 /\ history = <<>> /\ historyIndex = 0 /\ savedBuffer = <<>>
  /\ multiLineBuffer = None /\ braceDepth = 0 /\ parenDepth = 0 /\ escBuffer = None /\ open = TRUE
  /\ promptStatus = "idle" /\ preCheckTimer = None /\ preCheckVersion = 0 /\ preChecks = {}
  /\ judged = TRUE /\ unscheduled = FALSE

-----------------------------------------------------------------------------
(* Background checks.                                                      *)

\* Nothing, or a dot command.
IdleText(code) == LET ink == SelectSeq(code, LAMBDA ch : ch # Break) IN ink = <<>> \/ ink[1] = "."

\* What runs is no longer about what is shown.
Outdates == preChecks' = {[c EXCEPT !.shown = FALSE] : c \in preChecks}

\* The line changes and no check is scheduled for it.
Unscheduled ==
  /\ Outdates /\ judged' = (promptStatus' = "idle") /\ unscheduled' = TRUE /\ UNCHANGED preCheckVersion

\* The check that waits stays, and is about another text now.
LeavesTimer == preCheckTimer' = IF preCheckTimer = None THEN None ELSE [shown |-> FALSE]

\* schedulePreCheck() for the line b: a text that is not checked stops no timer and
\* leaves the newest number to the check that has it.
BugScheduled(b) ==
  LET code == IF multiLineBuffer = None THEN b ELSE multiLineBuffer \o <<Break>> \o b
  IN  IF IdleText(code)
      THEN promptStatus' = "idle" /\ LeavesTimer /\ Unscheduled
      ELSE /\ preCheckVersion < MaxPreChecks /\ UNCHANGED <<promptStatus, preCheckVersion>>
           /\ preCheckTimer' = [shown |-> TRUE]
           /\ Outdates /\ judged' = (promptStatus = "idle") /\ unscheduled' = FALSE
Scheduled(b) ==
  LET code == IF multiLineBuffer = None THEN b ELSE multiLineBuffer \o <<Break>> \o b
  IN  IF IdleText(code)
      THEN promptStatus' = "idle" /\ LeavesTimer /\ Unscheduled
      ELSE /\ preCheckVersion < MaxPreChecks /\ preCheckVersion' = preCheckVersion + 1
           /\ preCheckTimer' = [shown |-> TRUE] /\ UNCHANGED promptStatus
           /\ Outdates /\ judged' = (promptStatus = "idle") /\ unscheduled' = FALSE

PreCheckStarts ==
  /\ preCheckTimer # None /\ preCheckTimer' = None
  /\ preChecks' = preChecks \cup {[version |-> preCheckVersion, shown |-> preCheckTimer.shown]}
  /\ UNCHANGED <<lineVars, historyVars, depthVars, escBuffer, open, promptStatus, preCheckVersion, judged, unscheduled>>

\* Its verdict, or that it has failed, is taken if no newer one was scheduled.
PreCheckReturns(c) ==
  /\ preChecks' = preChecks \ {c}
  /\ IF c.version = preCheckVersion
     THEN promptStatus' \in {"ok", "error"} /\ judged' = c.shown
     ELSE UNCHANGED <<promptStatus, judged>>
  /\ UNCHANGED <<lineVars, historyVars, depthVars, escBuffer, open, preCheckTimer, preCheckVersion, unscheduled>>

-----------------------------------------------------------------------------
(* Keys that edit the line.                                                *)

BeforeCursor == SubSeq(buffer, 1, cursor)
AfterCursor == SubSeq(buffer, cursor + 1, Len(buffer))

\* The line becomes b with the cursor at n, and is checked after a pause.
Edited(b, n) == buffer' = b /\ cursor' = n /\ Scheduled(b) /\ UNCHANGED <<depthVars, open>>
Moved(n) == cursor' = n /\ UNCHANGED <<buffer, historyVars, depthVars, open, checkVars>>

Key == open /\ escBuffer = None /\ UNCHANGED escBuffer

InsertChar(ch) ==
  /\ Key /\ Len(buffer) < MaxLine /\ Edited(BeforeCursor \o <<ch>> \o AfterCursor, cursor + 1) /\ UNCHANGED historyVars
Backspace ==
  /\ Key /\ cursor > 0 /\ Edited(Front(BeforeCursor) \o AfterCursor, cursor - 1) /\ UNCHANGED historyVars
DeleteChar ==
  cursor < Len(buffer) /\ Edited(BeforeCursor \o Tail(AfterCursor), cursor) /\ UNCHANGED historyVars
KillLine == Key /\ Edited(BeforeCursor, cursor) /\ UNCHANGED historyVars
BugKillToStart == Key /\ Edited(AfterCursor, cursor) /\ UNCHANGED historyVars
KillToStart == Key /\ Edited(AfterCursor, 0) /\ UNCHANGED historyVars
MoveHome == Moved(0)
MoveEnd == Moved(Len(buffer))
MoveLeft == cursor > 0 /\ Moved(cursor - 1)
MoveRight == cursor < Len(buffer) /\ Moved(cursor + 1)

\* The only completion is put at the cursor; nothing is scheduled.
HandleTab(ch) ==
  /\ Key /\ Len(buffer) < MaxLine /\ buffer' = BeforeCursor \o <<ch>> \o AfterCursor /\ cursor' = cursor + 1
  /\ UNCHANGED promptStatus /\ LeavesTimer /\ Unscheduled /\ UNCHANGED <<historyVars, depthVars, open>>

HistoryUp ==
  /\ history # <<>> /\ historyIndex # 1
  /\ historyIndex' = IF historyIndex = 0 THEN Len(history) ELSE historyIndex - 1
  /\ savedBuffer' = IF historyIndex = 0 THEN buffer ELSE savedBuffer
  /\ Edited(history[historyIndex'], Len(history[historyIndex'])) /\ UNCHANGED history

HistoryDown ==
  /\ historyIndex # 0
  /\ historyIndex' = IF historyIndex < Len(history) THEN historyIndex + 1 ELSE 0
  /\ LET b == IF historyIndex' = 0 THEN savedBuffer ELSE history[historyIndex'] IN Edited(b, Len(b))
  /\ UNCHANGED <<history, savedBuffer>>

-----------------------------------------------------------------------------
(* Enter, Ctrl+C and Ctrl+D.                                               *)

Places(s, chars) == {n \in DOMAIN s : s[n] \in chars}
Depth(s, opening, closing) == Cardinality(Places(s, opening)) - Cardinality(Places(s, closing))
\* countDepth(): a parenthesis counts for both.
BraceDepth(s) == Depth(s, {"{", "("}, {"}", ")"})
ParenDepth(s) == Depth(s, {"("}, {")"})

\* A text without ink is not submitted; in the history its lines are one.
Submitted(code) ==
  /\ multiLineBuffer' = None /\ braceDepth' = 0 /\ parenDepth' = 0
  /\ history' = IF SelectSeq(code, LAMBDA ch : ch # Break) = <<>> THEN history
                ELSE Append(history, [n \in DOMAIN code |-> IF code[n] = Break THEN Literal ELSE code[n]])

\* The newest check that runs keeps its number.
Enter ==
  LET code == IF multiLineBuffer = None THEN buffer ELSE multiLineBuffer \o <<Break>> \o buffer
      brace == braceDepth + BraceDepth(buffer)
      paren == parenDepth + ParenDepth(buffer)
  IN  /\ Key /\ Len(code) <= MaxText /\ Len(history) < MaxHistory
      /\ buffer' = <<>> /\ cursor' = 0 /\ historyIndex' = 0
      /\ promptStatus' = "idle" /\ preCheckTimer' = None /\ Unscheduled
      /\ IF brace <= 0 /\ paren <= 0 THEN Submitted(code)
         ELSE multiLineBuffer' = code /\ braceDepth' = brace /\ parenDepth' = paren /\ UNCHANGED history
      /\ UNCHANGED <<savedBuffer, open>>

\* The line and the lines before it are dropped; the place in the history is not.
CtrlC ==
  /\ Key /\ buffer' = <<>> /\ cursor' = 0 /\ multiLineBuffer' = None /\ braceDepth' = 0 /\ parenDepth' = 0
  /\ UNCHANGED promptStatus /\ LeavesTimer /\ Unscheduled /\ UNCHANGED <<historyVars, open>>

CtrlD ==
  /\ Key
  /\ \/ buffer = <<>> /\ open' = FALSE /\ UNCHANGED <<lineVars, historyVars, depthVars, checkVars>>
     \/ buffer # <<>> /\ DeleteChar

-----------------------------------------------------------------------------
(* Escape sequences.                                                       *)

EscapeSequences ==
  {<<"[", "A">>, <<"[", "B">>, <<"[", "C">>, <<"[", "D">>, <<"[", "H">>, <<"[", "F">>,
   <<"[", "1", "~">>, <<"[", "4", "~">>, <<"[", "3", "~">>}

\* A key that can do nothing leaves everything.
Stays(acts) == ~acts /\ UNCHANGED <<lineVars, historyVars, depthVars, open, checkVars>>

Does(s) ==
  CASE s = <<"[", "A">> -> HistoryUp \/ Stays(history # <<>> /\ historyIndex # 1)
    [] s = <<"[", "B">> -> HistoryDown \/ Stays(historyIndex # 0)
    [] s = <<"[", "C">> -> MoveRight \/ Stays(cursor < Len(buffer))
    [] s = <<"[", "D">> -> MoveLeft \/ Stays(cursor > 0)
    [] s \in {<<"[", "H">>, <<"[", "1", "~">>} -> MoveHome
    [] s \in {<<"[", "F">>, <<"[", "4", "~">>} -> MoveEnd
    [] s = <<"[", "3", "~">> -> DeleteChar \/ Stays(cursor < Len(buffer))

Escape == open /\ escBuffer = None /\ escBuffer' = <<>> /\ UNCHANGED <<lineVars, historyVars, depthVars, open, checkVars>>

\* What follows an ESC is not text until a sequence is complete or six characters
\* have come: those that begin no sequence are kept as "?".
InEscape(ch) ==
  LET read == Append(escBuffer, ch)
  IN  /\ open /\ escBuffer # None
      /\ IF read \in EscapeSequences THEN escBuffer' = None /\ Does(read)
         ELSE /\ escBuffer' = IF Len(read) > 5 THEN None
                              ELSE IF \E s \in EscapeSequences : IsPrefix(read, s) THEN read
                              ELSE [n \in DOMAIN read |-> "?"]
              /\ UNCHANGED <<lineVars, historyVars, depthVars, open, checkVars>>

Keys == Typeable \cup {"[", "A", "B", "C", "D", "H", "F", "1", "3", "4", "~"}

TerminalNext ==
  \/ \E ch \in Typeable : InsertChar(ch) \/ HandleTab(ch)
  \/ Backspace \/ KillLine \/ KillToStart \/ (Key /\ MoveHome) \/ (Key /\ MoveEnd)
  \/ Enter \/ CtrlC \/ CtrlD
  \/ Escape \/ \E ch \in Keys : InEscape(ch)
  \/ PreCheckStarts \/ \E c \in preChecks : PreCheckReturns(c)

TerminalSpec == TerminalInit /\ [][TerminalNext]_terminalVars
-----------------------------------------------------------------------------
TerminalTypeOK ==
  /\ buffer \in Seq(Letter) /\ savedBuffer \in Seq(Letter) /\ history \in Seq(Seq(Letter))
  /\ multiLineBuffer \in Seq(Letter) \cup {None}
  /\ cursor \in 0 .. Len(buffer) /\ historyIndex \in 0 .. Len(history) /\ Len(history) <= MaxHistory
  /\ {braceDepth, parenDepth} \subseteq Int /\ promptStatus \in {"idle", "ok", "error"}
  /\ preCheckTimer \in {None} \cup [shown : BOOLEAN] /\ preCheckVersion \in 0 .. MaxPreChecks
  /\ preChecks \subseteq [version : 1 .. MaxPreChecks, shown : BOOLEAN]
  /\ {open, judged, unscheduled} \subseteq BOOLEAN
  /\ escBuffer = None \/ (escBuffer \in Seq(Keys \cup {"?"}) /\ Len(escBuffer) < 6)

\* The colour of the prompt is the verdict on the text that is shown, or a newer one
\* is on its way; after Enter, Ctrl+C, a completion and a text that is not checked,
\* which all change the line and leave the number of the newest check, a late
\* verdict on the text before may colour it until the next key.
VerdictIsOfShown ==
  promptStatus # "idle" =>
    \/ judged \/ unscheduled \/ preCheckTimer # None
    \/ \E c \in preChecks : c.version = preCheckVersion

\* The depths are those of the lines that wait for more, whatever was typed, dropped
\* or recalled in between, and there are such lines only while one is positive: so a
\* new text begins with nothing open.
DepthIsOfText ==
  IF multiLineBuffer = None THEN braceDepth = 0 /\ parenDepth = 0
  ELSE /\ braceDepth = BraceDepth(multiLineBuffer) /\ parenDepth = ParenDepth(multiLineBuffer)
       /\ braceDepth > 0 \/ parenDepth > 0
=============================================================================

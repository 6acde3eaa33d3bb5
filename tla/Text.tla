-------------------------------- MODULE Text --------------------------------
(***************************************************************************)
(* Texts that are written and taken apart again: rows as CSV, formatCSV()  *)
(* and parseCSV() (src/wrappers/data.ts), without a header; and the words  *)
(* of a command line, tokenize(), parseCommand() and parsePipeline()       *)
(* (src/repl/parser.ts).  A text is a sequence of characters, and a letter *)
(* stands for all that are not special.                                    *)
(***************************************************************************)
EXTENDS Naturals, SequencesExt, Nothing

CONSTANTS
  MaxField, Fields,  \* bounds: characters of a field, fields of a row
  MaxWord            \* bound: characters of an argument

ASSUME TextAssumption == {MaxField, Fields, MaxWord} \subseteq Nat /\ Fields > 0

Quote == "q"
Comma == ","
Tab == "t"
LineBreak == "n"
Letter == "x"
Char == {Quote, Comma, Tab, LineBreak, Letter}

\* The other blanks that trim() knows are as good as these.
Blank == {LineBreak, Tab}

VARIABLES delimiter, row, text, parsed  \* an option; a row, its text, the rows made of that

csvVars == <<delimiter, row, text, parsed>>

Text(max) == UNION {[1 .. n -> Char] : n \in 0 .. max}

CsvInit ==
  /\ delimiter \in {Comma, Tab}
  /\ row \in [1 .. Fields -> Text(MaxField)]
  /\ text = <<>> /\ parsed = <<>>

-----------------------------------------------------------------------------
\* s.trim()
Trimmed(s) ==
  LET inner == {n \in DOMAIN s : s[n] \notin Blank}
  IN  IF inner = {} THEN <<>>
      ELSE SubSeq(s, CHOOSE n \in inner : \A m \in inner : n <= m,
                     CHOOSE n \in inner : \A m \in inner : m <= n)

\* s.split(separator)
SplitAt(s, separator) ==
  FoldLeft(LAMBDA parts, c : IF c = separator THEN Append(parts, <<>>)
                             ELSE [parts EXCEPT ![Len(parts)] = Append(@, c)],
           <<<<>>>>, s)

Joined(parts, separator) ==
  FoldLeft(LAMBDA all, part : all \o <<separator>> \o part, Head(parts), Tail(parts))

\* The quotes of a text, doubled.
Doubled(field) ==
  FoldLeft(LAMBDA all, c : all \o (IF c = Quote THEN <<Quote, Quote>> ELSE <<c>>), <<>>, field)

\* A field with one of these is put into quotes, and its quotes doubled.
EscapeCsvField(field, d) ==
  IF {d, Quote, LineBreak} \cap Range(field) = {} THEN field
  ELSE <<Quote>> \o Doubled(field) \o <<Quote>>

\* A quote opens or closes, two of them inside quotes are one; the delimiter counts
\* outside.
CsvRead(line, d, s, n) ==
  IF s.skip THEN [s EXCEPT !.skip = FALSE]
  ELSE IF line[n] = Quote
       THEN IF s.inQuotes /\ n < Len(line) /\ line[n + 1] = Quote
            THEN [s EXCEPT !.current = Append(@, Quote), !.skip = TRUE]
            ELSE [s EXCEPT !.inQuotes = ~@]
  ELSE IF line[n] = d /\ ~s.inQuotes
       THEN [s EXCEPT !.fields = Append(@, Trimmed(s.current)), !.current = <<>>]
  ELSE [s EXCEPT !.current = Append(@, line[n])]

Places(line) == [n \in DOMAIN line |-> n]

\* One pass over the line.
ParseCsvLine(line, d) ==
  LET start == [fields |-> <<>>, current |-> <<>>, inQuotes |-> FALSE, skip |-> FALSE]
      end == FoldLeft(LAMBDA s, n : CsvRead(line, d, s, n), start, Places(line))
  IN  Append(end.fields, Trimmed(end.current))

\* The text is cut into lines before its quotes are looked at.
ParseCSV(t, d) ==
  LET lines == SplitAt(Trimmed(t), LineBreak)
  IN  [l \in DOMAIN lines |-> ParseCsvLine(lines[l], d)]

FormatCSV(rows, d) ==
  Joined([r \in DOMAIN rows |->
            Joined([f \in DOMAIN rows[r] |-> EscapeCsvField(rows[r][f], d)], d)], LineBreak)

-----------------------------------------------------------------------------
Formats == text = <<>> /\ text' = FormatCSV(<<row>>, delimiter) /\ UNCHANGED <<delimiter, row, parsed>>
Parses == text # <<>> /\ parsed = <<>> /\ parsed' = ParseCSV(text, delimiter) /\ UNCHANGED <<delimiter, row, text>>

CsvNext == Formats \/ Parses

CsvSpec == CsvInit /\ [][CsvNext]_csvVars
-----------------------------------------------------------------------------
CsvTypeOK == text \in Seq(Char) /\ \A r \in DOMAIN parsed : parsed[r] \in Seq(Seq(Char))

\* The text as a whole is trimmed: with tabs between them an empty first or last
\* field is lost.
TrimmedAway == delimiter = Tab /\ (Trimmed(row[1]) = <<>> \/ Trimmed(row[Fields]) = <<>>)

\* What was formatted is parsed as it was, if no field has a newline, and none a
\* blank at an end: fields are trimmed, those in quotes too.
CsvRoundTrip ==
  parsed # <<>> /\ ~TrimmedAway
  /\ (\A f \in 1 .. Fields : LineBreak \notin Range(row[f]) /\ row[f] = Trimmed(row[f])) =>
    parsed = <<row>>

-----------------------------------------------------------------------------
(* Command lines.                                                          *)

VARIABLES
  typed,      \* an argument and how it is written
  understood  \* the commands of the line that has it

typingVars == <<typed, understood>>

Space == "s"
Dash == "-"
Bar == "|"
Apostrophe == "'"
Backslash == "b"
Character == {Letter, Dash, Space, Bar, Apostrophe, Quote}
Word == UNION {[1 .. n -> Character] : n \in 1 .. MaxWord}

EndToken(s) ==
  IF s.current = <<>> THEN s ELSE [s EXCEPT !.tokens = Append(@, s.current), !.current = <<>>]

Toggled(s, ch) == IF ch = Apostrophe THEN [s EXCEPT !.single = ~@] ELSE [s EXCEPT !.double = ~@]

\* A quote opens or closes, unless one of the other kind is open.
IsQuote(s, ch) == (ch = Apostrophe /\ ~s.double) \/ (ch = Quote /\ ~s.single)
Quoted(s) == s.single \/ s.double

Scan1(s, ch) ==
  IF s.escaped THEN [s EXCEPT !.current = Append(@, ch), !.escaped = FALSE]
  ELSE IF ch = Backslash THEN [s EXCEPT !.escaped = TRUE]
  ELSE IF IsQuote(s, ch) THEN Toggled(s, ch)
  ELSE IF ch = Space /\ ~Quoted(s) THEN EndToken(s)
  ELSE [s EXCEPT !.current = Append(@, ch)]

Tokenize(input) ==
  EndToken(FoldLeft(Scan1,
                    [tokens |-> <<>>, current |-> <<>>, single |-> FALSE, double |-> FALSE, escaped |-> FALSE],
                    input)).tokens

\* --name and -n are flags, wherever they come from.
IsFlag(token) ==
  \/ Len(token) >= 2 /\ token[1] = Dash /\ token[2] = Dash
  \/ Len(token) = 2 /\ token[1] = Dash

\* Those of its items that are in a set.
Those(s, kept) == FoldLeft(LAMBDA those, x : IF x \in kept THEN Append(those, x) ELSE those, <<>>, s)

ParseCommand(tokens) ==
  LET flags == {token \in Range(tokens) : IsFlag(token)}
  IN  IF tokens = <<>> THEN [command |-> <<>>, args |-> <<>>, flags |-> <<>>]
      ELSE [command |-> Head(tokens),
            args |-> Those(Tail(tokens), Range(tokens) \ flags),
            flags |-> Those(Tail(tokens), flags)]

TrimBlanks(s) ==
  LET ink == {n \in DOMAIN s : s[n] # Space}
  IN  IF ink = {} THEN <<>> ELSE SubSeq(s, Min(ink), Max(ink))

\* Bars cut the line, but not inside quotes.  A backslash is not looked at here.
Cut1(s, ch) ==
  IF ch = Bar /\ ~Quoted(s) THEN [s EXCEPT !.parts = Append(@, <<>>)]
  ELSE LET t == IF IsQuote(s, ch) THEN Toggled(s, ch) ELSE s
       IN  [t EXCEPT !.parts[Len(t.parts)] = Append(@, ch)]

Segments(input) ==
  FoldLeft(Cut1, [parts |-> <<<<>>>>, single |-> FALSE, double |-> FALSE], input).parts

ParsePipeline(input) ==
  LET trimmed == [n \in DOMAIN Segments(input) |-> TrimBlanks(Segments(input)[n])]
      filled == Those(trimmed, Range(trimmed) \ {<<>>})
  IN  [n \in DOMAIN filled |-> ParseCommand(Tokenize(filled[n]))]

TypingInit == typed \in [word : Word, style : {"single", "double", "escape"}] /\ understood = None

\* A backslash before each of its characters.
Escaped(word) == FoldLeft(LAMBDA s, ch : s \o <<Backslash, ch>>, <<>>, word)

\* The word, written after a command's name.
Written ==
  LET w == typed.word
  IN  CASE typed.style = "single" -> <<Apostrophe>> \o w \o <<Apostrophe>>
        [] typed.style = "double" -> <<Quote>> \o w \o <<Quote>>
        [] typed.style = "escape" -> Escaped(w)

ParsesLine ==
  /\ understood = None
  /\ understood' = ParsePipeline(<<Letter, Space>> \o Written)
  /\ UNCHANGED typed

TypingSpec == TypingInit /\ [][ParsesLine]_typingVars
-----------------------------------------------------------------------------
TypingTypeOK == typed.word \in Word

\* A word that quotes or backslashes protect; backslashes do not protect a bar or a
\* quote from parsePipeline(), nor a blank at the end from its trim(), and in quotes
\* of its own kind no quote can be written.
Protected ==
  LET chars == Range(typed.word)
  IN  CASE typed.style = "single" -> Apostrophe \notin chars
        [] typed.style = "double" -> Quote \notin chars
        [] typed.style = "escape" -> Bar \notin chars /\ Last(typed.word) # Space

\* A protected word arrives in one command, as one argument and letter for letter,
\* or as a flag if it looks like one (tokenize() and parsePipeline() scan for quotes
\* separately and have to agree).
WordsArrive ==
  understood # None /\ Protected =>
    understood = <<[command |-> <<Letter>>,
                    args |-> IF IsFlag(typed.word) THEN <<>> ELSE <<typed.word>>,
                    flags |-> IF IsFlag(typed.word) THEN <<typed.word>> ELSE <<>>]>>
=============================================================================

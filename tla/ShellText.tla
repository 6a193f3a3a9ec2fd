----------------------------- MODULE ShellText -----------------------------
(***************************************************************************)
(* The two scans of a command's text (mapping.py): for control operators   *)
(* and for its static words.  Each is a loop over the characters with      *)
(* quoting rules of its own; here they read the text side by side.         *)
(*                                                                         *)
(* A text is a sequence of characters.  One stands for each class the      *)
(* scans tell apart, and a piece is a run of ordinary characters.          *)
(***************************************************************************)
EXTENDS Integers, SequencesExt

CONSTANT Pieces   \* runs of ordinary characters

Nul == "NUL"
Newline == "\n"      \* or a carriage return
Blank == " "         \* or a tab, vertical tab or form feed
Wide == "NBSP"       \* other white space: ordinary, except to str.split
Single == "'"
Double == "\""
Backslash == "\\"
Dollar == "$"
Backtick == "backtick"
Hash == "#"
Pipe == "|"
Amp == "&"
Open == "("
Operator == ";"      \* or one of < > )
Glob == "*"          \* or one of ? [ { }

Specials ==
  {Nul, Newline, Blank, Wide, Single, Double, Backslash, Dollar, Backtick, Hash, Pipe, Amp, Open,
   Operator, Glob}

Characters == Specials \cup Pieces

NoCharacter == "end of text"

ASSUME ShellTextAssumption == Pieces \cap Specials = {} /\ NoCharacter \notin Characters

\* What may not follow a backslash.
Ends == {NoCharacter, Newline}

\* Where a shell puts something else, in double quotes too.
Expanding == {Dollar, Backtick}

Following(chars, i) == IF i < Len(chars) THEN chars[i + 1] ELSE NoCharacter

-----------------------------------------------------------------------------
(* _scan_shell_control_operators.  A character that "index += 2" passes    *)
(* over is skipped.                                                        *)

NoControl == [quote |-> "none", skip |-> FALSE, pipes |-> 0, bad |-> FALSE]

\* Mutant: a backslash counts in double quotes only.
OutsideSinglesPlain(s, c, next) ==
  CASE c = Backslash /\ s.quote = "double" /\ next \in Ends -> [s EXCEPT !.bad = TRUE]
    [] c = Backslash /\ s.quote = "double" /\ next \notin Ends -> [s EXCEPT !.skip = TRUE]
    [] c = Single /\ s.quote = "none" -> [s EXCEPT !.quote = "single"]
    [] c = Double -> [s EXCEPT !.quote = IF s.quote = "double" THEN "none" ELSE "double"]
    [] c = Backtick \/ (c = Dollar /\ next = Open) -> [s EXCEPT !.bad = TRUE]
    [] c = Pipe /\ s.quote = "none" /\ next = Pipe -> [s EXCEPT !.bad = TRUE]
    [] c = Pipe /\ s.quote = "none" /\ next # Pipe -> [s EXCEPT !.pipes = @ + 1, !.skip = next = Amp]
    [] c \in {Amp, Open, Operator} /\ s.quote = "none" -> [s EXCEPT !.bad = TRUE]
    [] OTHER -> s

OutsideSingles(s, c, next) ==
  CASE c = Backslash /\ next \in Ends -> [s EXCEPT !.bad = TRUE]
    [] c = Backslash /\ next \notin Ends -> [s EXCEPT !.skip = TRUE]
    [] c = Single /\ s.quote = "none" -> [s EXCEPT !.quote = "single"]
    [] c = Double -> [s EXCEPT !.quote = IF s.quote = "double" THEN "none" ELSE "double"]
    [] c = Backtick \/ (c = Dollar /\ next = Open) -> [s EXCEPT !.bad = TRUE]
    [] c = Pipe /\ s.quote = "none" /\ next = Pipe -> [s EXCEPT !.bad = TRUE]
    [] c = Pipe /\ s.quote = "none" /\ next # Pipe -> [s EXCEPT !.pipes = @ + 1, !.skip = next = Amp]
    [] c \in {Amp, Open, Operator} /\ s.quote = "none" -> [s EXCEPT !.bad = TRUE]
    [] OTHER -> s

AfterControl(s, c, next) ==
  CASE s.bad -> s
    [] ~s.bad /\ s.skip -> [s EXCEPT !.skip = FALSE]
    [] ~s.bad /\ ~s.skip /\ c \in {Nul, Newline} -> [s EXCEPT !.bad = TRUE]
    [] ~s.bad /\ ~s.skip /\ c \notin {Nul, Newline} /\ s.quote = "single" ->
         [s EXCEPT !.quote = IF c = Single THEN "none" ELSE "single"]
    [] OTHER -> OutsideSingles(s, c, next)

Unsupported(s) == s.bad \/ s.quote # "none"

\* One operator, a pipe, or none, or anything else.
ControlKind(s) ==
  CASE Unsupported(s) \/ s.pipes > 1 -> "other"
    [] ~Unsupported(s) /\ s.pipes = 1 -> "pipe"
    [] OTHER -> "none"

\* The scan of a whole text.
ScanControl(chars) ==
  FoldLeftDomain(LAMBDA s, i : AfterControl(s, chars[i], Following(chars, i)), NoControl, chars)

-----------------------------------------------------------------------------
(* _scan_static_shell_words.                                               *)

NoWords ==
  [quote |-> "none", skip |-> FALSE, started |-> FALSE, current |-> <<>>, words |-> <<>>,
   verdict |-> "reading"]

Take(s, c) == [s EXCEPT !.current = Append(@, c), !.started = TRUE]
TakeNext(s, next) == [Take(s, next) EXCEPT !.skip = TRUE]
Enter(s, quote) == [s EXCEPT !.quote = quote, !.started = TRUE]
Leave(s) == [s EXCEPT !.quote = "none"]
Unsafe(s) == [s EXCEPT !.verdict = "unsafe"]

WordsOf(s) == IF s.started THEN Append(s.words, s.current) ELSE s.words

InSingles(s, c) ==
  CASE c = Single -> Leave(s)
    [] c = Backslash /\ s.quote = "ansi" -> Unsafe(s)
    [] OTHER -> Take(s, c)

\* Mutant: a backslash in double quotes takes any character.
InDoublesAny(s, c, next) ==
  CASE c = Double -> Leave(s)
    [] c \in Expanding \/ (c = Backslash /\ next \in Ends) -> Unsafe(s)
    [] c = Backslash /\ next \notin Ends -> TakeNext(s, next)
    [] OTHER -> Take(s, c)

InDoubles(s, c, next) ==
  CASE c = Double -> Leave(s)
    [] c \in Expanding \/ (c = Backslash /\ next \in Ends) -> Unsafe(s)
    [] c = Backslash /\ next \in Expanding \cup {Double, Backslash} -> TakeNext(s, next)
    [] OTHER -> Take(s, c)

Unquoted(s, c, next) ==
  CASE c = Blank -> [s EXCEPT !.words = WordsOf(s), !.current = <<>>, !.started = FALSE]
    [] c = Hash /\ ~s.started -> [s EXCEPT !.verdict = "commented"]
    [] c = Single -> Enter(s, "single")
    [] c = Double -> Enter(s, "double")
    [] c = Dollar /\ next = Single -> [Enter(s, "ansi") EXCEPT !.skip = TRUE]
    [] c = Dollar /\ next = Double -> [Enter(s, "double") EXCEPT !.skip = TRUE]
    [] c \in Expanding \cup {Glob} /\ ~(c = Dollar /\ next \in {Single, Double}) -> Unsafe(s)
    [] c = Backslash /\ next \in Ends -> Unsafe(s)
    [] c = Backslash /\ next \notin Ends -> TakeNext(s, next)
    [] c \in {Pipe, Amp, Open, Operator} -> Unsafe(s)
    [] OTHER -> Take(s, c)

AfterStatic(s, c, next) ==
  CASE s.verdict # "reading" -> s
    [] s.verdict = "reading" /\ s.skip -> [s EXCEPT !.skip = FALSE]
    [] s.verdict = "reading" /\ ~s.skip /\ c \in {Nul, Newline} -> Unsafe(s)
    [] OTHER ->
         CASE s.quote \in {"single", "ansi"} -> InSingles(s, c)
           [] s.quote = "double" -> InDoubles(s, c, next)
           [] s.quote = "none" -> Unquoted(s, c, next)

Commented(s) == s.verdict = "commented"
Static(s) == Commented(s) \/ (s.verdict = "reading" /\ s.quote = "none")

-----------------------------------------------------------------------------

VARIABLES
  text, pos,   \* the command's text and the next character
  control,     \* the state of either scan
  static

textVars == <<text, pos, control, static>>

StartReading ==
  /\ pos = 1
  /\ control = NoControl
  /\ static = NoWords

ReadCharacter ==
  /\ pos <= Len(text)
  /\ control' = AfterControl(control, text[pos], Following(text, pos))
  /\ static' = AfterStatic(static, text[pos], Following(text, pos))
  /\ pos' = pos + 1
  /\ UNCHANGED text

TextSpec == text \in Seq(Characters) /\ StartReading /\ [][ReadCharacter]_textVars

Read == pos > Len(text)
Holds(cs) == \E i \in DOMAIN text : text[i] \in cs

\* The scans agree on every text without a comment: words that are known
\* hold no operator the other scan has seen, and a text without operators
\* has known words unless it holds something a shell expands, or a NUL.
ScannersAgree ==
  Read /\ ~Commented(static) =>
    /\ Static(static) => ControlKind(control) = "none"
    /\ ControlKind(control) = "none" /\ ~Holds(Expanding \cup {Glob, Nul}) => Static(static)
=============================================================================

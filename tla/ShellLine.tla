----------------------------- MODULE ShellLine -----------------------------
(***************************************************************************)
(* A terminal command from its text to its answer: the scans read the      *)
(* text, the tokens are split from it, and resolve_tool_call decides       *)
(* (mapping.py).  Texts are written character by character or as lines of  *)
(* quoted words, whose meaning to a shell is known without the scans.      *)
(***************************************************************************)
EXTENDS Terminal, ShellText

CONSTANTS
  Texts,   \* texts, <<>> for an argument that is missing, empty or not a string
  Lines,   \* lines of quoted words
  Push     \* the piece "push"

-----------------------------------------------------------------------------
(* Lines.  A segment is the characters it stands for and how it is quoted. *)

Escaped(c) == <<Backslash, c>>

Render(segment) ==
  LET chars == segment.chars
  IN CASE segment.how = "plain" -> chars
       [] segment.how = "escaped" -> FlattenSeq([i \in DOMAIN chars |-> Escaped(chars[i])])
       [] segment.how = "single" -> <<Single>> \o chars \o <<Single>>
       [] segment.how = "ansi" -> <<Dollar, Single>> \o chars \o <<Single>>
       [] segment.how = "double" ->
            <<Double>>
            \o FlattenSeq([i \in DOMAIN chars |->
                 IF chars[i] \in Expanding \cup {Double, Backslash} THEN Escaped(chars[i]) ELSE <<chars[i]>>])
            \o <<Double>>

RenderWord(word) == FlattenSeq([i \in DOMAIN word |-> Render(word[i])])
Spell(word) == FlattenSeq([i \in DOMAIN word |-> word[i].chars])

\* The words of a line, each with what stands before it.
RenderLine(written) ==
  FlattenSeq([i \in DOMAIN written |-> written[i].before \o RenderWord(written[i].word)])

Comment == <<Blank, Hash>>

\* The characters that stand for themselves under each quoting.
Allowed ==
  LET OneLine == Characters \ {Nul, Newline}
  IN [plain |-> Pieces \cup {Wide}, escaped |-> OneLine, double |-> OneLine,
      single |-> OneLine \ {Single}, ansi |-> OneLine \ {Single, Backslash}]

Segment == [how : DOMAIN Allowed, chars : Seq(Characters)]

IsSegment(segment) ==
  /\ segment.chars \in Seq(Allowed[segment.how])
  /\ segment.how \in {"plain", "escaped"} => segment.chars # <<>>

\* An operator, with or without blanks in front of it.
BeginsOperator(before) ==
  \E n \in DOMAIN before :
    before[n] \in {Pipe, Amp, Open, Operator} /\ \A m \in 1..n - 1 : before[m] = Blank

\* Words are apart, by a blank or by what ends a command's words.
Parts(before) == before \in {<<Blank>>, Comment} \/ BeginsOperator(before)

IsLine(written) ==
  /\ written \in Seq([before : Seq(Characters), word : Seq(Segment)])
  /\ \A i \in DOMAIN written :
       /\ IF i = 1 THEN written[i].before = <<>> ELSE Parts(written[i].before)
       /\ written[i].word # <<>>
       /\ \A j \in DOMAIN written[i].word : IsSegment(written[i].word[j])

ASSUME ShellLineAssumption ==
  /\ Texts \subseteq Seq(Characters)
  /\ \A written \in Lines : IsLine(written)

-----------------------------------------------------------------------------
(* The tokens: str.split, " ".join and shlex.split in POSIX mode.          *)

Spaces == {Blank, Wide, Newline}

NoFields == [current |-> <<>>, fields |-> <<>>]

EndField(s) == IF s.current = <<>> THEN s.fields ELSE Append(s.fields, s.current)

AfterField(s, c) ==
  IF c \in Spaces THEN [current |-> <<>>, fields |-> EndField(s)]
  ELSE [s EXCEPT !.current = Append(@, c)]

FieldsOf(chars) == EndField(FoldLeft(AfterField, NoFields, chars))

\* _normalize_command
Normalized(chars) ==
  LET fields == FieldsOf(chars)
  IN FlattenSeq([i \in 1..Len(fields) |-> IF i = 1 THEN fields[i] ELSE <<Blank>> \o fields[i]])

NoTokens == [quote |-> "none", escape |-> FALSE, started |-> FALSE, current |-> <<>>, words |-> <<>>]

AfterShlex(s, c) ==
  CASE s.escape ->
         LET kept == IF s.quote = "double" /\ c \notin {Double, Backslash} THEN <<Backslash, c>> ELSE <<c>>
         IN [s EXCEPT !.escape = FALSE, !.started = TRUE, !.current = @ \o kept]
    [] ~s.escape /\ c = Backslash /\ s.quote # "single" -> [s EXCEPT !.escape = TRUE]
    [] c = Single /\ ~s.escape /\ s.quote \in {"none", "single"} ->
         IF s.quote = "single" THEN Leave(s) ELSE Enter(s, "single")
    [] c = Double /\ ~s.escape /\ s.quote \in {"none", "double"} ->
         IF s.quote = "double" THEN Leave(s) ELSE Enter(s, "double")
    [] c = Blank /\ ~s.escape /\ s.quote = "none" ->
         [s EXCEPT !.words = WordsOf(s), !.current = <<>>, !.started = FALSE]
    [] OTHER -> Take(s, c)

\* _split_command: where shlex raises, the fields.
TokensOf(chars) ==
  LET s == FoldLeft(AfterShlex, NoTokens, Normalized(chars))
  IN IF s.escape \/ s.quote # "none" THEN FieldsOf(chars) ELSE WordsOf(s)

-----------------------------------------------------------------------------

Spelled(words) ==
  [i \in DOMAIN words |-> FoldLeft(LAMBDA word, c : word \o c, "", words[i])]

\* _pipe_to_shell scans the normalized text again: a pipe it does not find
\* there is none that runs a shell.
ControlOf(s, chars) ==
  IF ControlKind(s) = "pipe" /\ ControlKind(ScanControl(Normalized(chars))) # "pipe"
    THEN "other" ELSE ControlKind(s)

CommandOf(chars, c, s) ==
  [words |-> Spelled(WordsOf(s)),
   control |-> ControlOf(c, chars),
   static |-> Static(s),
   commented |-> Commented(s),
   tokens |-> Spelled(TokensOf(chars)),
   fields |-> Spelled(FieldsOf(chars)),
   push |-> <<Push>> \in ToSet(FieldsOf(chars))]

VARIABLE line   \* the line the text is written from, or NoLine

NoLine == <<>>

vars == <<terminalVars, textVars, line>>

Init ==
  /\ \/ text \in Texts /\ line = NoLine
     \/ line \in Lines /\ text = RenderLine(line)
  /\ StartReading
  /\ TerminalInit

ReadNext == phase = "idle" /\ ReadCharacter /\ UNCHANGED <<terminalVars, line>>

\* The scans have ended; the text is not looked at again.
Present ==
  /\ Read
  /\ Receive(IF text = <<>> THEN NoCommand ELSE CommandOf(text, control, static))
  /\ text' = <<>> /\ pos' = 1 /\ control' = NoControl /\ static' = NoWords
  /\ line' = NoLine

Decide == Resolve /\ UNCHANGED <<textVars, line>>

\* A resolution stops only where it has answered.
Finished == phase = "done" /\ UNCHANGED vars

Next == ReadNext \/ Present \/ Decide \/ Finished

Spec == Init /\ [][Next]_vars

-----------------------------------------------------------------------------

LineTypeOK ==
  /\ TypeOK
  /\ text \in Seq(Characters) /\ pos \in 1..Len(text) + 1
  /\ static.words \in Seq(Seq(Characters)) /\ static.current \in Seq(Characters)
  /\ phase # "idle" => text = <<>>

\* The words of a line are those a shell makes of it, up to its comment:
\* quoting neither hides an operator between words nor makes one of a
\* quoted character, for either scan.
WordsAreTheShells ==
  Read /\ line # NoLine =>
    LET stop == SelectInSeq(line, LAMBDA w : w.before \notin {<<>>, <<Blank>>})
        known == IF stop = 0 THEN line ELSE SubSeq(line, 1, stop - 1)
        operators == \E i \in DOMAIN line : line[i].before \notin {<<>>, <<Blank>>, Comment}
    IN /\ Static(static) <=> stop = 0 \/ line[stop].before = Comment
       /\ Commented(static) <=> stop > 0 /\ line[stop].before = Comment
       /\ Static(static) => WordsOf(static) = [i \in DOMAIN known |-> Spell(known[i].word)]
       /\ operators => ControlKind(control) # "none"
       /\ stop = 0 => ControlKind(control) = "none"

\* The classifiers' tokens are the words the checks looked at, unless a
\* dollar or a backtick is quoted or joining the fields changes the text.
TokensAreTheWords ==
  Read /\ Static(static) /\ ~Commented(static) /\ ~Holds(Expanding) /\ Normalized(text) = text =>
    TokensOf(text) = WordsOf(static)
=============================================================================

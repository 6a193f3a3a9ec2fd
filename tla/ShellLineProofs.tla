-------------------------- MODULE ShellLineProofs --------------------------
(***************************************************************************)
(* Reading a command's text and deciding what the scans found implements   *)
(* the resolution of any command, so what is proved of that holds for the  *)
(* answers to texts; and the scans agree while they are part of it, with   *)
(* shlex and, on lines of quoted words, with a shell.                      *)
(***************************************************************************)
EXTENDS ShellLine, TerminalProofs, ShellTextProofs

-----------------------------------------------------------------------------
(* What the scans make of a written line, a character at a time: the scan  *)
(* for words spells the word it is in, and the one for operators finds     *)
(* nothing.                                                                *)

Spells(s, quote, current, started, words) ==
  /\ s \in StaticType /\ s.verdict = "reading" /\ ~s.skip
  /\ s.quote = quote /\ s.current = current /\ s.started = started /\ s.words = words

Calm(k, quote) == k \in ControlType /\ ~k.skip /\ Clear(k) /\ k.quote = ControlQuote(quote)

\* A comment ends the words.
Gives(s, words) == s.verdict = "commented" /\ WordsOf(s) = words

\* What has to be escaped in double quotes.
Special == Expanding \cup {Double, Backslash}

\* The characters that either stand for themselves or behind a backslash.
AsItIs(quote) ==
  CASE quote = "none" -> Allowed.plain
    [] quote = "single" -> Allowed.single
    [] quote = "ansi" -> Allowed.ansi
    [] quote = "double" -> Allowed.double \ Special

Behind(quote) == IF quote = "none" THEN Allowed.escaped ELSE Special

\* A word goes on with one character more.
LEMMA TakenAlone ==
  ASSUME NEW quote \in {"none", "single", "ansi", "double"}, NEW c \in AsItIs(quote),
         NEW next \in Characters \cup {NoCharacter},
         NEW s, NEW k, NEW current, NEW started, NEW words,
         c \in Characters, Spells(s, quote, current, started, words), Calm(k, quote)
  PROVE  /\ Spells(AfterStatic(s, c, next), quote, Append(current, c), TRUE, words)
         /\ Calm(AfterControl(k, c, next), quote)
<1>1. s \in StaticType /\ s.verdict = "reading" /\ ~s.skip /\ s.quote = quote
  BY DEF Spells
<1>2. k \in ControlType /\ ~k.bad /\ ~k.skip /\ k.quote = ControlQuote(quote)
  BY DEF Calm, Clear
<1>3. AfterStatic(s, c, next) \in StaticType /\ AfterControl(k, c, next) \in ControlType
  BY <1>1, <1>2, StaticTypes, ControlTypes
<1>4. AfterStatic(s, c, next) = Take(s, c) => Spells(AfterStatic(s, c, next), quote, Append(current, c), TRUE, words)
  BY <1>3 DEF Spells, Take, StaticType
<1>5. CASE quote = "none"
  <2>1. c \in Pieces \cup {Wide}
    BY <1>5 DEF AsItIs, Allowed
  <2>2. c \notin {Nul, Newline, Blank, Single, Double, Backslash, Dollar, Backtick, Hash, Pipe, Amp, Open,
                  Operator, Glob}
    BY <2>1, ShellTextAssumption
    DEF Specials, Nul, Newline, Blank, Wide, Single, Double, Backslash, Dollar, Backtick, Hash, Pipe, Amp, Open,
        Operator, Glob
  <2>3. Unquoted(s, c, next) = Take(s, c)
    BY <2>2 DEF Unquoted, Expanding
  <2>4. OutsideSingles(k, c, next) = k
    BY <2>2 DEF OutsideSingles
  <2>5. AfterStatic(s, c, next) = Unquoted(s, c, next)
    BY <1>1, <1>5, <2>2 DEF AfterStatic
  <2>6. AfterControl(k, c, next) = OutsideSingles(k, c, next)
    BY <1>2, <1>5, <2>2 DEF AfterControl, ControlQuote
  <2> QED
    BY <1>4, <2>3, <2>4, <2>5, <2>6
<1>6. CASE quote \in {"single", "ansi"}
  <2>1. c \notin {Nul, Newline, Single} /\ (quote = "ansi" => c # Backslash)
    BY <1>6 DEF AsItIs, Allowed
  <2>2. InSingles(s, c) = Take(s, c)
    BY <1>1, <2>1 DEF InSingles
  <2>3. AfterStatic(s, c, next) = InSingles(s, c)
    BY <1>1, <1>6, <2>1 DEF AfterStatic
  <2>4. AfterControl(k, c, next) = [k EXCEPT !.quote = "single"] /\ ControlQuote(quote) = "single"
    BY <1>2, <1>6, <2>1 DEF AfterControl, ControlQuote
  <2>5. Calm(AfterControl(k, c, next), quote)
    BY <2>4 DEF Calm, Clear, ControlType
  <2> QED
    BY <1>4, <2>2, <2>3, <2>5
<1>7. CASE quote = "double"
  <2>1. c \notin {Nul, Newline} \cup Special
    BY <1>7 DEF AsItIs, Allowed
  <2>2. InDoubles(s, c, next) = Take(s, c)
    BY <2>1 DEF InDoubles, Special
  <2>3. OutsideSingles(k, c, next) = k
    BY <1>2, <1>7, <2>1 DEF OutsideSingles, Special, Expanding, ControlQuote
  <2>4. AfterStatic(s, c, next) = InDoubles(s, c, next)
    BY <1>1, <1>7, <2>1 DEF AfterStatic
  <2>5. AfterControl(k, c, next) = OutsideSingles(k, c, next)
    BY <1>2, <1>7, <2>1 DEF AfterControl, ControlQuote
  <2> QED
    BY <1>4, <2>2, <2>3, <2>4, <2>5
<1> QED
  BY <1>5, <1>6, <1>7

\* With one behind a backslash.
LEMMA TakenEscaped ==
  ASSUME NEW quote \in {"none", "double"}, NEW c \in Behind(quote),
         NEW next \in Characters \cup {NoCharacter},
         NEW s, NEW k, NEW current, NEW started, NEW words,
         c \in Characters, Spells(s, quote, current, started, words), Calm(k, quote)
  PROVE  /\ Spells(AfterStatic(AfterStatic(s, Backslash, c), c, next), quote, Append(current, c), TRUE, words)
         /\ Calm(AfterControl(AfterControl(k, Backslash, c), c, next), quote)
<1> DEFINE s2 == TakeNext(s, c)
           k2 == [k EXCEPT !.skip = TRUE]
<1>1. s \in StaticType /\ s.verdict = "reading" /\ ~s.skip /\ s.quote = quote
  BY DEF Spells
<1>2. k \in ControlType /\ ~k.bad /\ ~k.skip /\ k.quote = ControlQuote(quote)
  BY DEF Calm, Clear
<1>3. c \notin Ends
  BY ShellTextAssumption
  DEF Behind, Allowed, Special, Ends, Newline, Expanding, Dollar, Backtick, Double, Backslash, Characters, Specials
<1>4. AfterStatic(s, Backslash, c) = s2
  <2>1. CASE quote = "none"
    <3>1. AfterStatic(s, Backslash, c) = Unquoted(s, Backslash, c)
      BY <1>1, <2>1 DEF AfterStatic, Backslash, Nul, Newline
    <3>2. Unquoted(s, Backslash, c) = TakeNext(s, c)
      BY <1>3 DEF Unquoted, Expanding, Backslash, Blank, Hash, Single, Double, Dollar, Backtick, Glob, Pipe, Amp, Open,
                  Operator
    <3> QED
      BY <3>1, <3>2
  <2>2. CASE quote = "double"
    <3>1. AfterStatic(s, Backslash, c) = InDoubles(s, Backslash, c)
      BY <1>1, <2>2 DEF AfterStatic, Backslash, Nul, Newline
    <3>2. c \in Special
      BY <2>2 DEF Behind
    <3>3. InDoubles(s, Backslash, c) = TakeNext(s, c)
      BY <1>3, <3>2 DEF InDoubles, Special, Expanding, Backslash, Double, Dollar, Backtick
    <3> QED
      BY <3>1, <3>3
  <2> QED
    BY <2>1, <2>2
<1>5. AfterControl(k, Backslash, c) = k2
  <2>1. AfterControl(k, Backslash, c) = OutsideSingles(k, Backslash, c)
    BY <1>2 DEF AfterControl, ControlQuote, Backslash, Nul, Newline
  <2>2. OutsideSingles(k, Backslash, c) = k2
    BY <1>3 DEF OutsideSingles, Double, Single, Dollar, Backtick, Backslash, Pipe, Amp, Open, Operator
  <2> QED
    BY <2>1, <2>2
<1>6. Backslash \in Characters
  BY DEF Characters, Specials
<1>7. s2 \in StaticType /\ k2 \in ControlType
  <2>1. AfterStatic(s, Backslash, c) \in StaticType /\ AfterControl(k, Backslash, c) \in ControlType
    BY <1>1, <1>2, <1>6, StaticTypes, ControlTypes
  <2> QED
    BY <1>4, <1>5, <2>1
<1>8. /\ s2.verdict = "reading" /\ s2.skip /\ s2.quote = quote /\ s2.current = Append(current, c) /\ s2.started
      /\ s2.words = words
  BY DEF Spells, TakeNext, Take, StaticType
<1>9. Clear(k2) /\ k2.skip /\ k2.quote = ControlQuote(quote)
  BY DEF Calm, Clear, ControlType
<1> HIDE DEF s2, k2
<1>10. AfterStatic(s2, c, next) = [s2 EXCEPT !.skip = FALSE]
  BY <1>8 DEF AfterStatic
<1>11. AfterControl(k2, c, next) = [k2 EXCEPT !.skip = FALSE]
  BY <1>9 DEF AfterControl, Clear
<1>12. AfterStatic(s2, c, next) \in StaticType /\ AfterControl(k2, c, next) \in ControlType
  BY <1>7, StaticTypes, ControlTypes
<1>13. Spells(AfterStatic(s2, c, next), quote, Append(current, c), TRUE, words)
  BY <1>7, <1>8, <1>10, <1>12 DEF Spells, StaticType
<1>14. Calm(AfterControl(k2, c, next), quote)
  BY <1>7, <1>9, <1>11, <1>12 DEF Calm, Clear, ControlType
<1> QED
  BY <1>4, <1>5, <1>13, <1>14

\* A quote begins and ends.
LEMMA QuoteOpened ==
  ASSUME NEW quote \in {"single", "double"}, NEW c, c = IF quote = "single" THEN Single ELSE Double,
         NEW next \in Characters \cup {NoCharacter},
         NEW s, NEW k, NEW current, NEW started, NEW words,
         Spells(s, "none", current, started, words), Calm(k, "none")
  PROVE  Spells(AfterStatic(s, c, next), quote, current, TRUE, words) /\ Calm(AfterControl(k, c, next), quote)
<1>1. s \in StaticType /\ s.verdict = "reading" /\ ~s.skip /\ s.quote = "none"
  BY DEF Spells
<1>2. k \in ControlType /\ ~k.bad /\ ~k.skip /\ k.quote = "none"
  BY DEF Calm, Clear, ControlQuote
<1>3. c \in Characters
  BY DEF Characters, Specials
<1>4. AfterStatic(s, c, next) \in StaticType /\ AfterControl(k, c, next) \in ControlType
  BY <1>1, <1>2, <1>3, StaticTypes, ControlTypes
<1>5. AfterStatic(s, c, next) = Enter(s, quote)
  <2>1. AfterStatic(s, c, next) = Unquoted(s, c, next)
    BY <1>1 DEF AfterStatic, Single, Double, Nul, Newline
  <2>2. Unquoted(s, c, next) = Enter(s, quote)
    BY DEF Unquoted, Expanding, Backslash, Blank, Hash, Single, Double, Dollar, Backtick, Glob, Pipe, Amp, Open, Operator
  <2> QED
    BY <2>1, <2>2
<1>6. AfterControl(k, c, next) = [k EXCEPT !.quote = quote]
  <2>1. AfterControl(k, c, next) = OutsideSingles(k, c, next)
    BY <1>2 DEF AfterControl, Single, Double, Nul, Newline
  <2>2. OutsideSingles(k, c, next) = [k EXCEPT !.quote = quote]
    BY <1>2 DEF OutsideSingles, Double, Single, Dollar, Backtick, Backslash, Pipe, Amp, Open, Operator
  <2> QED
    BY <2>1, <2>2
<1> QED
  BY <1>4, <1>5, <1>6 DEF Spells, Calm, Clear, Enter, StaticType, ControlType, ControlQuote

\* A dollar and a quote are one opening, of which the other scan sees the quote.
LEMMA AnsiOpened ==
  ASSUME NEW next \in Characters \cup {NoCharacter},
         NEW s, NEW k, NEW current, NEW started, NEW words,
         Spells(s, "none", current, started, words), Calm(k, "none")
  PROVE  /\ Spells(AfterStatic(AfterStatic(s, Dollar, Single), Single, next), "ansi", current, TRUE, words)
         /\ Calm(AfterControl(AfterControl(k, Dollar, Single), Single, next), "ansi")
<1> DEFINE s2 == [Enter(s, "ansi") EXCEPT !.skip = TRUE]
<1>1. s \in StaticType /\ s.verdict = "reading" /\ ~s.skip /\ s.quote = "none"
  BY DEF Spells
<1>2. k \in ControlType /\ ~k.bad /\ ~k.skip /\ k.quote = "none"
  BY DEF Calm, Clear, ControlQuote
<1>3. Dollar \in Characters /\ Single \in Characters
  BY DEF Characters, Specials
<1>4. AfterStatic(s, Dollar, Single) = s2
  <2>1. AfterStatic(s, Dollar, Single) = Unquoted(s, Dollar, Single)
    BY <1>1 DEF AfterStatic, Dollar, Nul, Newline
  <2>2. Unquoted(s, Dollar, Single) = s2
    BY DEF Unquoted, Expanding, Backslash, Blank, Hash, Single, Double, Dollar, Backtick, Glob, Pipe, Amp, Open, Operator
  <2> QED
    BY <2>1, <2>2
<1>5. AfterControl(k, Dollar, Single) = k
  <2>1. AfterControl(k, Dollar, Single) = OutsideSingles(k, Dollar, Single)
    BY <1>2 DEF AfterControl, Dollar, Nul, Newline
  <2>2. OutsideSingles(k, Dollar, Single) = k
    BY <1>2 DEF OutsideSingles, Double, Single, Dollar, Backtick, Backslash, Pipe, Amp, Open, Operator
  <2> QED
    BY <2>1, <2>2
<1>6. s2 \in StaticType
  <2>1. AfterStatic(s, Dollar, Single) \in StaticType
    BY <1>1, <1>3, StaticTypes
  <2> QED
    BY <1>4, <2>1
<1>7. s2.verdict = "reading" /\ s2.skip /\ s2.quote = "ansi" /\ s2.current = current /\ s2.started /\ s2.words = words
  BY DEF Spells, Enter, StaticType
<1> HIDE DEF s2
<1>8. AfterStatic(s2, Single, next) = [s2 EXCEPT !.skip = FALSE] /\ AfterStatic(s2, Single, next) \in StaticType
  BY <1>3, <1>6, <1>7, StaticTypes DEF AfterStatic
<1>9. Spells(AfterStatic(s2, Single, next), "ansi", current, TRUE, words)
  BY <1>6, <1>7, <1>8 DEF Spells, StaticType
<1>10. Calm(AfterControl(k, Single, next), "ansi")
  BY QuoteOpened DEF ControlQuote, Calm
<1> QED
  BY <1>4, <1>5, <1>9, <1>10

\* Either scan is out of the quote again.
LEMMA QuoteClosed ==
  ASSUME NEW quote \in {"single", "ansi", "double"}, NEW c, c = IF quote = "double" THEN Double ELSE Single,
         NEW next \in Characters \cup {NoCharacter},
         NEW s, NEW k, NEW current, NEW started, NEW words,
         Spells(s, quote, current, started, words), Calm(k, quote)
  PROVE  Spells(AfterStatic(s, c, next), "none", current, started, words) /\ Calm(AfterControl(k, c, next), "none")
<1>1. s \in StaticType /\ s.verdict = "reading" /\ ~s.skip /\ s.quote = quote
  BY DEF Spells
<1>2. k \in ControlType /\ ~k.bad /\ ~k.skip /\ k.quote = ControlQuote(quote)
  BY DEF Calm, Clear
<1>3. c \in Characters
  BY DEF Characters, Specials
<1>4. AfterStatic(s, c, next) \in StaticType /\ AfterControl(k, c, next) \in ControlType
  BY <1>1, <1>2, <1>3, StaticTypes, ControlTypes
<1>5. AfterStatic(s, c, next) = Leave(s)
  BY <1>1 DEF AfterStatic, InSingles, InDoubles, Single, Double, Nul, Newline, Expanding, Dollar, Backtick, Backslash
<1>6. AfterControl(k, c, next) = [k EXCEPT !.quote = "none"]
  <2>1. CASE quote = "double"
    BY <1>2, <2>1 DEF AfterControl, ControlQuote, OutsideSingles, Double, Single, Dollar, Backtick, Backslash, Pipe,
                      Amp, Open, Operator, Nul, Newline
  <2>2. CASE quote # "double"
    BY <1>2, <2>2 DEF AfterControl, ControlQuote, Single, Nul, Newline
  <2> QED
    BY <2>1, <2>2
<1> QED
  BY <1>4, <1>5, <1>6 DEF Spells, Calm, Clear, Leave, StaticType, ControlType, ControlQuote

\* Between words.
LEMMA WordEnded ==
  ASSUME NEW next \in Characters \cup {NoCharacter}, NEW s, NEW k, NEW current, NEW words
  PROVE  /\ Spells(s, "none", current, TRUE, words)
              => Spells(AfterStatic(s, Blank, next), "none", <<>>, FALSE, Append(words, current))
         /\ Spells(s, "none", current, FALSE, words)
              => Spells(AfterStatic(s, Blank, next), "none", <<>>, FALSE, words)
         /\ Calm(k, "none") => Calm(AfterControl(k, Blank, next), "none")
<1>1. Blank \in Characters
  BY DEF Characters, Specials
<1>2. ASSUME NEW started \in BOOLEAN, Spells(s, "none", current, started, words)
      PROVE  Spells(AfterStatic(s, Blank, next), "none", <<>>, FALSE, WordsOf(s))
  <2>1. s \in StaticType /\ s.verdict = "reading" /\ ~s.skip /\ s.quote = "none"
    BY <1>2 DEF Spells
  <2>2. AfterStatic(s, Blank, next) \in StaticType
    BY <1>1, <2>1, StaticTypes
  <2>3. AfterStatic(s, Blank, next) = Unquoted(s, Blank, next)
    BY <2>1 DEF AfterStatic, Blank, Nul, Newline
  <2>4. Unquoted(s, Blank, next) = [s EXCEPT !.words = WordsOf(s), !.current = <<>>, !.started = FALSE]
    BY Zenon DEF Unquoted, Expanding, Backslash, Blank, Hash, Single, Double, Dollar, Backtick, Glob, Pipe, Amp, Open,
                 Operator
  <2> DEFINE ws == WordsOf(s)
             none == <<>>
  <2> HIDE DEF ws, none
  <2>5. AfterStatic(s, Blank, next) = [s EXCEPT !.words = ws, !.current = none, !.started = FALSE]
    BY <2>3, <2>4 DEF ws, none
  <2>6. Spells(AfterStatic(s, Blank, next), "none", none, FALSE, ws)
    BY <2>1, <2>2, <2>5 DEF Spells, StaticType
  <2> QED
    BY <2>6 DEF ws, none
<1>3. Spells(s, "none", current, TRUE, words) => WordsOf(s) = Append(words, current)
  BY DEF WordsOf, Spells
<1>4. Spells(s, "none", current, FALSE, words) => WordsOf(s) = words
  BY DEF WordsOf, Spells
<1>5. ASSUME Calm(k, "none") PROVE Calm(AfterControl(k, Blank, next), "none")
  <2>1. k \in ControlType /\ ~k.bad /\ ~k.skip /\ k.quote = "none"
    BY <1>5 DEF Calm, Clear, ControlQuote
  <2>2. AfterControl(k, Blank, next) = k
    BY <2>1 DEF AfterControl, OutsideSingles, Blank, Double, Single, Dollar, Backtick, Backslash, Pipe, Amp, Open,
                Operator, Nul, Newline
  <2> QED
    BY <1>5, <2>2
<1> QED
  BY <1>2, <1>3, <1>4, <1>5

\* Only the scan for words ends at a comment.
LEMMA CommentBegins ==
  ASSUME NEW next, NEW s, NEW k, NEW current, NEW words,
         Spells(s, "none", current, FALSE, words), Calm(k, "none")
  PROVE  /\ Gives(AfterStatic(s, Hash, next), words)
         /\ AfterControl(k, Hash, next) = k
<1>1. s \in StaticType /\ s.verdict = "reading" /\ ~s.skip /\ s.quote = "none" /\ ~s.started
  BY DEF Spells
<1>2. k \in ControlType /\ ~k.bad /\ ~k.skip /\ k.quote = "none"
  BY DEF Calm, Clear, ControlQuote
<1>3. AfterStatic(s, Hash, next) = [s EXCEPT !.verdict = "commented"]
  <2>1. AfterStatic(s, Hash, next) = Unquoted(s, Hash, next)
    BY <1>1 DEF AfterStatic, Hash, Nul, Newline
  <2>2. Unquoted(s, Hash, next) = [s EXCEPT !.verdict = "commented"]
    BY <1>1 DEF Unquoted, Expanding, Backslash, Blank, Hash, Single, Double, Dollar, Backtick, Glob, Pipe, Amp, Open,
                Operator
  <2> QED
    BY <2>1, <2>2
<1>4. AfterControl(k, Hash, next) = k
  BY <1>2 DEF AfterControl, OutsideSingles, Hash, Double, Single, Dollar, Backtick, Backslash, Pipe, Amp, Open, Operator,
              Nul, Newline
<1>5. Gives([s EXCEPT !.verdict = "commented"], words)
  BY <1>1 DEF StaticType, WordsOf, Spells, Gives
<1> QED
  BY <1>3, <1>4, <1>5

\* Either scan finds an operator outside quotes.
LEMMA OperatorFound ==
  ASSUME NEW c \in {Pipe, Amp, Open, Operator}, NEW next, NEW s, NEW k, NEW current, NEW started, NEW words
  PROVE  /\ Calm(k, "none") => ~Clear(AfterControl(k, c, next))
         /\ Spells(s, "none", current, started, words) => AfterStatic(s, c, next).verdict = "unsafe"
<1>1. ASSUME Calm(k, "none") PROVE ~Clear(AfterControl(k, c, next))
  <2>1. k \in ControlType /\ ~k.bad /\ ~k.skip /\ k.quote = "none"
    BY <1>1 DEF Calm, Clear, ControlQuote
  <2>2. AfterControl(k, c, next) = OutsideSingles(k, c, next)
    BY <2>1 DEF AfterControl, Pipe, Amp, Open, Operator, Nul, Newline
  <2>3. CASE c = Pipe
    BY <2>1, <2>2, <2>3 DEF OutsideSingles, Double, Single, Dollar, Backtick, Backslash, Pipe, Amp, Open, Operator,
                            ControlType, Clear
  <2>4. CASE c # Pipe
    <3>1. OutsideSingles(k, c, next) = [k EXCEPT !.bad = TRUE]
      BY <2>1, <2>4 DEF OutsideSingles, Double, Single, Dollar, Backtick, Backslash, Pipe, Amp, Open, Operator
    <3> QED
      BY <2>1, <2>2, <3>1 DEF ControlType, Clear
  <2> QED
    BY <2>3, <2>4
<1>2. ASSUME Spells(s, "none", current, started, words) PROVE AfterStatic(s, c, next).verdict = "unsafe"
  <2>1. s \in StaticType /\ s.verdict = "reading" /\ ~s.skip /\ s.quote = "none"
    BY <1>2 DEF Spells
  <2>2. AfterStatic(s, c, next) = Unsafe(s)
    BY <2>1 DEF AfterStatic, Unquoted, Expanding, Backslash, Blank, Hash, Single, Double, Dollar, Backtick, Glob, Pipe,
                Amp, Open, Operator, Nul, Newline
  <2> QED
    BY <2>1, <2>2 DEF Unsafe, StaticType
<1> QED
  BY <1>1, <1>2

-----------------------------------------------------------------------------
(* The states of both scans along a text.                                  *)

Scans(run, chars) ==
  /\ run[0].s = NoWords /\ run[0].k = NoControl
  /\ \A i \in 1..Len(chars) :
       /\ run[i].s = AfterStatic(run[i - 1].s, chars[i], Following(chars, i))
       /\ run[i].k = AfterControl(run[i - 1].k, chars[i], Following(chars, i))

\* In a word of a written line; behind a comment only operators count.
Reads(state, mute, quote, current, started, words) ==
  /\ Calm(state.k, quote)
  /\ IF mute THEN state.s.verdict = "commented" ELSE Spells(state.s, quote, current, started, words)

\* One character more of a text is read; a scan for words that has ended stays.
LEMMA CharacterRead ==
  ASSUME NEW chars \in Seq(Characters), NEW run, Scans(run, chars), NEW a \in Nat, a + 1 <= Len(chars)
  PROVE  /\ run[a + 1].s = AfterStatic(run[a].s, chars[a + 1], Following(chars, a + 1))
         /\ run[a + 1].k = AfterControl(run[a].k, chars[a + 1], Following(chars, a + 1))
         /\ run[a].s.verdict # "reading" => run[a + 1].s = run[a].s
         /\ chars[a + 1] \in Characters /\ Following(chars, a + 1) \in Characters \cup {NoCharacter}
<1> DEFINE i == a + 1
<1>1. i \in 1..Len(chars) /\ i - 1 = a /\ Len(chars) \in Nat
  OBVIOUS
<1>2. chars[i] \in Characters /\ Following(chars, i) \in Characters \cup {NoCharacter}
  BY <1>1 DEF Following
<1> HIDE DEF i
<1>3. /\ run[i].s = AfterStatic(run[i - 1].s, chars[i], Following(chars, i))
      /\ run[i].k = AfterControl(run[i - 1].k, chars[i], Following(chars, i))
  BY Zenon, <1>1 DEF Scans
<1>4. run[a].s.verdict # "reading" => run[i].s = run[a].s
  BY <1>1, <1>3 DEF AfterStatic
<1> QED
  BY <1>1, <1>2, <1>3, <1>4 DEF i

\* The scan for operators does not depend on the other.
LEMMA SomeSpells ==
  ASSUME NEW quote \in {"none", "single", "ansi", "double"}
  PROVE  \E s : Spells(s, quote, <<>>, TRUE, <<>>)
<1> DEFINE none == <<>>
<1>1. none \in Seq(Characters) /\ none \in Seq(Seq(Characters))
  OBVIOUS
<1> HIDE DEF none
<1> DEFINE s == [quote |-> quote, skip |-> FALSE, started |-> TRUE, current |-> none, words |-> none,
                 verdict |-> "reading"]
<1>2. Spells(s, quote, none, TRUE, none)
  BY <1>1 DEF Spells, StaticType
<1> HIDE DEF s
<1> QED
  BY <1>2 DEF none

\* TakenAlone, along a text.
LEMMA AloneRead ==
  ASSUME NEW chars \in Seq(Characters), NEW run, Scans(run, chars), NEW a \in Nat, a + 1 <= Len(chars),
         NEW mute \in BOOLEAN, NEW quote \in {"none", "single", "ansi", "double"},
         NEW current, NEW started, NEW words,
         Reads(run[a], mute, quote, current, started, words), chars[a + 1] \in AsItIs(quote)
  PROVE  Reads(run[a + 1], mute, quote, Append(current, chars[a + 1]), TRUE, words)
<1> DEFINE c == chars[a + 1]
           next == Following(chars, a + 1)
<1>1. /\ run[a + 1].s = AfterStatic(run[a].s, c, next) /\ run[a + 1].k = AfterControl(run[a].k, c, next)
      /\ run[a].s.verdict # "reading" => run[a + 1].s = run[a].s
      /\ c \in Characters /\ next \in Characters \cup {NoCharacter} /\ c \in AsItIs(quote)
  BY CharacterRead
<1> HIDE DEF c, next
<1>2. Calm(run[a + 1].k, quote)
  BY <1>1, SomeSpells, TakenAlone DEF Reads
<1>3. ~mute => Spells(run[a + 1].s, quote, Append(current, c), TRUE, words)
  <2> DEFINE s == run[a].s
             k == run[a].k
  <2>1. (~mute => Spells(s, quote, current, started, words)) /\ Calm(k, quote)
    BY DEF Reads
  <2> HIDE DEF s, k
  <2>2. ~mute => Spells(AfterStatic(s, c, next), quote, Append(current, c), TRUE, words)
    BY <1>1, <2>1, TakenAlone
  <2> QED
    BY <1>1, <2>2 DEF s
<1>4. mute => run[a + 1].s.verdict = "commented"
  BY <1>1 DEF Reads
<1> QED
  BY <1>2, <1>3, <1>4 DEF Reads, c

\* TakenEscaped, along a text.
LEMMA EscapedRead ==
  ASSUME NEW chars \in Seq(Characters), NEW run, Scans(run, chars), NEW a \in Nat, a + 2 <= Len(chars),
         NEW mute \in BOOLEAN, NEW quote \in {"none", "double"},
         NEW current, NEW started, NEW words,
         Reads(run[a], mute, quote, current, started, words),
         chars[a + 1] = Backslash, chars[a + 2] \in Behind(quote)
  PROVE  Reads(run[a + 2], mute, quote, Append(current, chars[a + 2]), TRUE, words)
<1> DEFINE b == a + 1
           c == chars[a + 2]
           next == Following(chars, a + 2)
<1>1. b \in Nat /\ b + 1 = a + 2 /\ b + 1 <= Len(chars) /\ a + 1 <= Len(chars)
  OBVIOUS
<1>2. Following(chars, a + 1) = c /\ c \in Behind(quote)
  BY <1>1 DEF Following
<1>3. /\ run[b].s = AfterStatic(run[a].s, Backslash, c) /\ run[b].k = AfterControl(run[a].k, Backslash, c)
      /\ run[a].s.verdict # "reading" => run[b].s = run[a].s
  BY <1>1, <1>2, CharacterRead
<1> HIDE DEF b
<1>4. /\ run[b + 1].s = AfterStatic(run[b].s, chars[b + 1], Following(chars, b + 1))
      /\ run[b + 1].k = AfterControl(run[b].k, chars[b + 1], Following(chars, b + 1))
      /\ run[b].s.verdict # "reading" => run[b + 1].s = run[b].s
      /\ chars[b + 1] \in Characters /\ Following(chars, b + 1) \in Characters \cup {NoCharacter}
  BY <1>1, CharacterRead
<1>5. /\ run[a + 2].s = AfterStatic(run[b].s, c, next) /\ run[a + 2].k = AfterControl(run[b].k, c, next)
      /\ run[b].s.verdict # "reading" => run[a + 2].s = run[b].s
      /\ c \in Characters /\ next \in Characters \cup {NoCharacter}
  BY <1>1, <1>4
<1> HIDE DEF c, next
<1>6. Calm(run[a + 2].k, quote)
  <2>1. PICK s : Spells(s, quote, <<>>, TRUE, <<>>)
    BY SomeSpells
  <2>2. Calm(run[a].k, quote)
    BY DEF Reads
  <2> QED
    BY <1>2, <1>3, <1>5, <2>1, <2>2, TakenEscaped
<1>7. ~mute => Spells(run[a + 2].s, quote, Append(current, c), TRUE, words)
  <2> DEFINE s == run[a].s
             k == run[a].k
  <2>1. (~mute => Spells(s, quote, current, started, words)) /\ Calm(k, quote)
    BY DEF Reads
  <2> HIDE DEF s, k
  <2>2. ~mute => Spells(AfterStatic(AfterStatic(s, Backslash, c), c, next), quote, Append(current, c), TRUE, words)
    BY <1>2, <1>5, <2>1, TakenEscaped
  <2> QED
    BY <1>3, <1>5, <2>2 DEF s
<1>8. mute => run[a + 2].s.verdict = "commented"
  BY <1>3, <1>5 DEF Reads
<1> QED
  BY <1>6, <1>7, <1>8 DEF Reads, c

\* QuoteOpened, along a text.
LEMMA OpenedRead ==
  ASSUME NEW chars \in Seq(Characters), NEW run, Scans(run, chars), NEW a \in Nat, a + 1 <= Len(chars),
         NEW mute \in BOOLEAN, NEW quote \in {"single", "double"},
         NEW current, NEW started, NEW words,
         Reads(run[a], mute, "none", current, started, words),
         chars[a + 1] = IF quote = "single" THEN Single ELSE Double
  PROVE  Reads(run[a + 1], mute, quote, current, TRUE, words)
<1> DEFINE c == chars[a + 1]
           next == Following(chars, a + 1)
<1>1. /\ run[a + 1].s = AfterStatic(run[a].s, c, next) /\ run[a + 1].k = AfterControl(run[a].k, c, next)
      /\ run[a].s.verdict # "reading" => run[a + 1].s = run[a].s
      /\ next \in Characters \cup {NoCharacter} /\ c = IF quote = "single" THEN Single ELSE Double
  BY CharacterRead
<1> HIDE DEF c, next
<1>2. Calm(run[a + 1].k, quote)
  BY <1>1, SomeSpells, QuoteOpened DEF Reads
<1>3. ~mute => Spells(run[a + 1].s, quote, current, TRUE, words)
  BY <1>1, QuoteOpened DEF Reads
<1>4. mute => run[a + 1].s.verdict = "commented"
  BY <1>1 DEF Reads
<1> QED
  BY <1>2, <1>3, <1>4 DEF Reads

\* AnsiOpened, along a text.
LEMMA AnsiRead ==
  ASSUME NEW chars \in Seq(Characters), NEW run, Scans(run, chars), NEW a \in Nat, a + 2 <= Len(chars),
         NEW mute \in BOOLEAN, NEW current, NEW started, NEW words,
         Reads(run[a], mute, "none", current, started, words),
         chars[a + 1] = Dollar, chars[a + 2] = Single
  PROVE  Reads(run[a + 2], mute, "ansi", current, TRUE, words)
<1> DEFINE b == a + 1
           next == Following(chars, a + 2)
<1>1. b \in Nat /\ b + 1 = a + 2 /\ b + 1 <= Len(chars) /\ a + 1 <= Len(chars)
  OBVIOUS
<1>2. Following(chars, a + 1) = Single
  BY <1>1 DEF Following
<1>3. /\ run[b].s = AfterStatic(run[a].s, Dollar, Single) /\ run[b].k = AfterControl(run[a].k, Dollar, Single)
      /\ run[a].s.verdict # "reading" => run[b].s = run[a].s
  BY <1>1, <1>2, CharacterRead
<1> HIDE DEF b
<1>4. /\ run[b + 1].s = AfterStatic(run[b].s, chars[b + 1], Following(chars, b + 1))
      /\ run[b + 1].k = AfterControl(run[b].k, chars[b + 1], Following(chars, b + 1))
      /\ run[b].s.verdict # "reading" => run[b + 1].s = run[b].s
      /\ Following(chars, b + 1) \in Characters \cup {NoCharacter}
  BY <1>1, CharacterRead
<1>5. /\ run[a + 2].s = AfterStatic(run[b].s, Single, next) /\ run[a + 2].k = AfterControl(run[b].k, Single, next)
      /\ run[b].s.verdict # "reading" => run[a + 2].s = run[b].s
      /\ next \in Characters \cup {NoCharacter}
  BY <1>1, <1>4
<1> HIDE DEF next
<1>6. Calm(run[a + 2].k, "ansi")
  BY <1>3, <1>5, SomeSpells, AnsiOpened DEF Reads
<1>7. ~mute => Spells(run[a + 2].s, "ansi", current, TRUE, words)
  BY <1>3, <1>5, AnsiOpened DEF Reads
<1>8. mute => run[a + 2].s.verdict = "commented"
  BY <1>3, <1>5 DEF Reads
<1> QED
  BY <1>6, <1>7, <1>8 DEF Reads

\* QuoteClosed, along a text.
LEMMA ClosedRead ==
  ASSUME NEW chars \in Seq(Characters), NEW run, Scans(run, chars), NEW a \in Nat, a + 1 <= Len(chars),
         NEW mute \in BOOLEAN, NEW quote \in {"single", "ansi", "double"},
         NEW current, NEW started, NEW words,
         Reads(run[a], mute, quote, current, started, words),
         chars[a + 1] = IF quote = "double" THEN Double ELSE Single
  PROVE  Reads(run[a + 1], mute, "none", current, started, words)
<1> DEFINE c == chars[a + 1]
           next == Following(chars, a + 1)
<1>1. /\ run[a + 1].s = AfterStatic(run[a].s, c, next) /\ run[a + 1].k = AfterControl(run[a].k, c, next)
      /\ run[a].s.verdict # "reading" => run[a + 1].s = run[a].s
      /\ next \in Characters \cup {NoCharacter} /\ c = IF quote = "double" THEN Double ELSE Single
  BY CharacterRead
<1> HIDE DEF c, next
<1>2. Calm(run[a + 1].k, "none")
  <2>1. PICK s : Spells(s, quote, <<>>, TRUE, <<>>)
    BY SomeSpells
  <2>2. Calm(run[a].k, quote)
    BY DEF Reads
  <2> QED
    BY <1>1, <2>1, <2>2, QuoteClosed
<1>3. ~mute => Spells(run[a + 1].s, "none", current, started, words)
  BY <1>1, QuoteClosed DEF Reads
<1>4. mute => run[a + 1].s.verdict = "commented"
  BY <1>1 DEF Reads
<1> QED
  BY <1>2, <1>3, <1>4 DEF Reads

\* WordEnded, along a text.
LEMMA BlankRead ==
  ASSUME NEW chars \in Seq(Characters), NEW run, Scans(run, chars), NEW a \in Nat, a + 1 <= Len(chars),
         NEW mute \in BOOLEAN, NEW current, NEW words, chars[a + 1] = Blank
  PROVE  /\ Reads(run[a], mute, "none", current, TRUE, words)
              => Reads(run[a + 1], mute, "none", <<>>, FALSE, Append(words, current))
         /\ Reads(run[a], mute, "none", current, FALSE, words)
              => Reads(run[a + 1], mute, "none", <<>>, FALSE, words)
<1> DEFINE next == Following(chars, a + 1)
           s == run[a].s
           k == run[a].k
<1>1. /\ run[a + 1].s = AfterStatic(s, Blank, next) /\ run[a + 1].k = AfterControl(k, Blank, next)
      /\ s.verdict # "reading" => run[a + 1].s = s
      /\ next \in Characters \cup {NoCharacter}
  BY CharacterRead
<1>2. /\ Spells(s, "none", current, TRUE, words)
           => Spells(run[a + 1].s, "none", <<>>, FALSE, Append(words, current))
      /\ Spells(s, "none", current, FALSE, words) => Spells(run[a + 1].s, "none", <<>>, FALSE, words)
      /\ Calm(k, "none") => Calm(run[a + 1].k, "none")
  <2> HIDE DEF next, s, k
  <2> QED
    BY <1>1, WordEnded
<1> QED
  BY <1>1, <1>2 DEF Reads

\* Appending to what stands behind another sequence.
LEMMA AppendBehind ==
  ASSUME NEW x \in Seq(Characters), NEW y \in Seq(Characters), NEW c \in Characters
  PROVE  Append(x \o y, c) = x \o Append(y, c)
<1> DEFINE left == Append(x \o y, c)
           right == x \o Append(y, c)
<1>1. left \in Seq(Characters) /\ right \in Seq(Characters) /\ Len(left) = Len(right) /\ Len(left) = Len(x) + Len(y) + 1
  OBVIOUS
<1>2. ASSUME NEW i \in 1..Len(left) PROVE left[i] = right[i]
  <2>1. CASE i <= Len(x)
    BY <1>1, <2>1
  <2>2. CASE i > Len(x) /\ i <= Len(x) + Len(y)
    BY <1>1, <2>2
  <2>3. CASE i = Len(x) + Len(y) + 1
    BY <1>1, <2>3
  <2> QED
    BY <1>1, <2>1, <2>2, <2>3
<1> HIDE DEF left, right
<1>3. left = right
  BY <1>1, <1>2, SeqEqual
<1> QED
  BY <1>3 DEF left, right

\* Characters read one after another, each at its offset.
LEMMA CharactersRead ==
  ASSUME NEW run, NEW off, NEW mute, NEW quote, NEW words,
         NEW chars \in Seq(Characters), NEW current \in Seq(Characters), NEW started \in BOOLEAN,
         Reads(run[off[0]], mute, quote, current, started, words),
         \A k \in 1..Len(chars) : \A now \in Seq(Characters), st \in BOOLEAN :
           Reads(run[off[k - 1]], mute, quote, now, st, words)
             => Reads(run[off[k]], mute, quote, Append(now, chars[k]), TRUE, words)
  PROVE  /\ chars = <<>> => Reads(run[off[Len(chars)]], mute, quote, current \o chars, started, words)
         /\ chars # <<>> => Reads(run[off[Len(chars)]], mute, quote, current \o chars, TRUE, words)
<1> DEFINE N == Len(chars)
           Now(k) == current \o SubSeq(chars, 1, k)
           At(k) == \E st \in BOOLEAN : (k # 0 => st) /\ (k = 0 => st = started)
                                        /\ Reads(run[off[k]], mute, quote, Now(k), st, words)
           P == {k \in Nat : At(k)}
<1>1. N \in Nat
  OBVIOUS
<1>2. Now(0) = current /\ Now(N) = current \o chars
  OBVIOUS
<1>3. 0 \in P
  BY <1>2
<1>4. \A k \in 0..N - 1 : k \in P => k + 1 \in P
  <2> SUFFICES ASSUME NEW k \in 0..N - 1, k \in P PROVE k + 1 \in P
    OBVIOUS
  <2> DEFINE m == k + 1
  <2>1. m \in 1..N /\ m - 1 = k /\ m \in Nat /\ m # 0
    BY <1>1
  <2>2. Now(k) \in Seq(Characters) /\ Append(Now(k), chars[m]) = Now(m)
    <3>1. SubSeq(chars, 1, k) \in Seq(Characters) /\ SubSeq(chars, 1, m) = Append(SubSeq(chars, 1, k), chars[m])
      BY <1>1, <2>1
    <3> DEFINE x == SubSeq(chars, 1, k)
               c == chars[m]
    <3>2. x \in Seq(Characters) /\ c \in Characters /\ SubSeq(chars, 1, m) = Append(x, c)
      BY <1>1, <2>1, <3>1
    <3> HIDE DEF x, c, m
    <3>3. Append(current \o x, c) = current \o Append(x, c)
      BY <3>2, AppendBehind
    <3>4. current \o x \in Seq(Characters)
      BY <3>2
    <3> QED
      BY <3>2, <3>3, <3>4 DEF x, c
  <2>3. PICK st \in BOOLEAN : Reads(run[off[k]], mute, quote, Now(k), st, words)
    OBVIOUS
  <2> HIDE DEF m, N, Now
  <2>4. Reads(run[off[m]], mute, quote, Append(Now(k), chars[m]), TRUE, words)
    BY <2>1, <2>2, <2>3 DEF N
  <2>5. m \in P
    BY <2>1, <2>2, <2>4
  <2> QED
    BY <2>5 DEF m
<1>5. N \in P
  <2> HIDE DEF P, N
  <2>1. 0..N \subseteq P
    BY <1>1, <1>3, <1>4, BoundedInduction
  <2> QED
    BY <1>1, <2>1
<1>6. PICK st \in BOOLEAN : (N # 0 => st) /\ (N = 0 => st = started)
                            /\ Reads(run[off[N]], mute, quote, Now(N), st, words)
  BY <1>5
<1>7. chars = <<>> <=> N = 0
  OBVIOUS
<1> HIDE DEF Now, N
<1>8. N # 0 => st = TRUE
  BY <1>6
<1> QED
  BY <1>2, <1>6, <1>7, <1>8 DEF N

\* Characters that stand for themselves.
LEMMA BodyRead ==
  ASSUME NEW txt \in Seq(Characters), NEW run, Scans(run, txt), NEW a \in Nat,
         NEW mute \in BOOLEAN, NEW quote \in {"none", "single", "ansi", "double"}, NEW words,
         NEW chars \in Seq(AsItIs(quote)), chars \in Seq(Characters), Stands(txt, a, chars),
         NEW current \in Seq(Characters), NEW started \in BOOLEAN,
         Reads(run[a], mute, quote, current, started, words)
  PROVE  /\ chars = <<>> => Reads(run[a + Len(chars)], mute, quote, current \o chars, started, words)
         /\ chars # <<>> => Reads(run[a + Len(chars)], mute, quote, current \o chars, TRUE, words)
<1> DEFINE N == Len(chars)
           off == [k \in 0..N |-> a + k]
<1>1. N \in Nat /\ a + N <= Len(txt) /\ Len(txt) \in Nat
  BY DEF Stands
<1>2. off[0] = a /\ off[N] = a + N
  BY <1>1
<1>3. ASSUME NEW k \in 1..N, NEW now \in Seq(Characters), NEW st \in BOOLEAN,
             Reads(run[off[k - 1]], mute, quote, now, st, words)
      PROVE  Reads(run[off[k]], mute, quote, Append(now, chars[k]), TRUE, words)
  <2> DEFINE b == a + (k - 1)
  <2>1. b \in Nat /\ b + 1 = a + k /\ b + 1 <= Len(txt) /\ off[k - 1] = b /\ off[k] = b + 1
    BY <1>1
  <2>2. txt[b + 1] = chars[k] /\ chars[k] \in AsItIs(quote)
    BY <2>1 DEF Stands
  <2> HIDE DEF b, off, N
  <2> QED
    BY <1>3, <2>1, <2>2, AloneRead
<1> HIDE DEF off
<1>4. Reads(run[off[0]], mute, quote, current, started, words)
  BY <1>2
<1>5. /\ chars = <<>> => Reads(run[off[N]], mute, quote, current \o chars, started, words)
      /\ chars # <<>> => Reads(run[off[N]], mute, quote, current \o chars, TRUE, words)
  BY <1>3, <1>4, CharactersRead
<1> QED
  BY <1>2, <1>5

\* Characters some of which are escaped.
LEMMA EscapedBodyRead ==
  ASSUME NEW txt \in Seq(Characters), NEW run, Scans(run, txt), NEW a \in Nat,
         NEW mute \in BOOLEAN, NEW quote \in {"none", "double"}, NEW words,
         NEW chars \in Seq(Characters), NEW units \in Seq(Seq(Characters)), Len(units) = Len(chars),
         \A k \in 1..Len(chars) :
           \/ units[k] = <<chars[k]>> /\ chars[k] \in AsItIs(quote)
           \/ units[k] = Escaped(chars[k]) /\ chars[k] \in Behind(quote),
         Stands(txt, a, FlattenSeq(units)),
         NEW current \in Seq(Characters), NEW started \in BOOLEAN,
         Reads(run[a], mute, quote, current, started, words)
  PROVE  /\ chars = <<>> => Reads(run[a + Len(FlattenSeq(units))], mute, quote, current \o chars, started, words)
         /\ chars # <<>> => Reads(run[a + Len(FlattenSeq(units))], mute, quote, current \o chars, TRUE, words)
<1> DEFINE N == Len(chars)
<1>1. N \in Nat /\ Len(txt) \in Nat
  OBVIOUS
<1>2. PICK off : Splits(off, txt, a, units)
  BY FlattenSplits
<1>3. /\ off[0] = a /\ off[N] = a + Len(FlattenSeq(units))
      /\ \A k \in 0..N : off[k] \in Nat
      /\ \A k \in 1..N : off[k] = off[k - 1] + Len(units[k]) /\ Stands(txt, off[k - 1], units[k])
  BY <1>2 DEF Splits
<1>4. ASSUME NEW k \in 1..N, NEW now \in Seq(Characters), NEW st \in BOOLEAN,
             Reads(run[off[k - 1]], mute, quote, now, st, words)
      PROVE  Reads(run[off[k]], mute, quote, Append(now, chars[k]), TRUE, words)
  <2> DEFINE b == off[k - 1]
             c == chars[k]
  <2>1. b \in Nat /\ off[k] = b + Len(units[k]) /\ Stands(txt, b, units[k])
    BY <1>1, <1>3
  <2>2. CASE units[k] = <<chars[k]>> /\ chars[k] \in AsItIs(quote)
    <3>1. units[k] = <<c>> /\ c \in AsItIs(quote) /\ Len(<<c>>) = 1 /\ <<c>>[1] = c
      BY <2>2
    <3> HIDE DEF b, c, N
    <3>2. off[k] = b + 1 /\ b + 1 <= Len(txt) /\ txt[b + 1] = c
      BY <2>1, <3>1 DEF Stands
    <3>3. Reads(run[b], mute, quote, now, st, words)
      BY <1>4 DEF b
    <3>4. quote \in {"none", "single", "ansi", "double"} /\ txt[b + 1] \in AsItIs(quote)
      BY <3>1, <3>2
    <3>5. Reads(run[b + 1], mute, quote, Append(now, txt[b + 1]), TRUE, words)
      BY <2>1, <3>2, <3>3, <3>4, AloneRead
    <3> QED
      BY <3>2, <3>5 DEF c
  <2>3. CASE units[k] = Escaped(chars[k]) /\ chars[k] \in Behind(quote)
    <3>1. units[k] = <<Backslash, c>> /\ c \in Behind(quote)
      BY <2>3 DEF Escaped
    <3>2. Len(<<Backslash, c>>) = 2 /\ <<Backslash, c>>[1] = Backslash /\ <<Backslash, c>>[2] = c
      OBVIOUS
    <3> HIDE DEF b, c, N
    <3>3. off[k] = b + 2 /\ b + 2 <= Len(txt) /\ txt[b + 1] = Backslash /\ txt[b + 2] = c
      <4>1. Len(units[k]) = 2 /\ units[k][1] = Backslash /\ units[k][2] = c
        BY <3>1, <3>2
      <4> QED
        BY <2>1, <4>1 DEF Stands
    <3>4. Reads(run[b], mute, quote, now, st, words)
      BY <1>4 DEF b
    <3>5. Reads(run[b + 2], mute, quote, Append(now, c), TRUE, words)
      BY <2>1, <3>1, <3>3, <3>4, EscapedRead
    <3> QED
      BY <3>3, <3>5 DEF c
  <2> QED
    BY <2>2, <2>3
<1>5. Reads(run[off[0]], mute, quote, current, started, words)
  BY <1>3
<1>6. /\ chars = <<>> => Reads(run[off[N]], mute, quote, current \o chars, started, words)
      /\ chars # <<>> => Reads(run[off[N]], mute, quote, current \o chars, TRUE, words)
  BY <1>4, <1>5, CharactersRead
<1> QED
  BY <1>3, <1>6

\* What is written in double quotes, and with a backslash before each.
InDouble(chars) == [i \in DOMAIN chars |-> IF chars[i] \in Special THEN Escaped(chars[i]) ELSE <<chars[i]>>]
EachEscaped(chars) == [i \in DOMAIN chars |-> Escaped(chars[i])]

\* Either is a sequence of pieces, one for each character.
LEMMA UnitTypes ==
  ASSUME NEW chars \in Seq(Characters)
  PROVE  /\ InDouble(chars) \in Seq(Seq(Characters)) /\ Len(InDouble(chars)) = Len(chars)
         /\ EachEscaped(chars) \in Seq(Seq(Characters)) /\ Len(EachEscaped(chars)) = Len(chars)
<1> DEFINE T == Seq(Characters)
<1>1. Len(chars) \in Nat /\ DOMAIN chars = 1..Len(chars) /\ \A i \in 1..Len(chars) : chars[i] \in Characters
  OBVIOUS
<1>2. ASSUME NEW c \in Characters PROVE <<c>> \in T /\ Escaped(c) \in T
  BY DEF Escaped, Characters, Specials
<1>3. ASSUME NEW i \in 1..Len(chars)
      PROVE  (IF chars[i] \in Special THEN Escaped(chars[i]) ELSE <<chars[i]>>) \in T /\ Escaped(chars[i]) \in T
  <2> HIDE DEF T
  <2> QED
    BY <1>1, <1>2
<1> HIDE DEF T
<1>4. InDouble(chars) \in [1..Len(chars) -> T] /\ EachEscaped(chars) \in [1..Len(chars) -> T]
  BY <1>1, <1>3 DEF InDouble, EachEscaped
<1>5. \A f \in [1..Len(chars) -> T] : f \in Seq(T) /\ Len(f) = Len(chars)
  BY <1>1
<1> QED
  BY <1>4, <1>5 DEF T

\* How a segment is written, quoting by quoting.
LEMMA RenderCases ==
  ASSUME NEW segment \in Segment
  PROVE  /\ segment.how = "plain" => Render(segment) = segment.chars
         /\ segment.how = "escaped" => Render(segment) = FlattenSeq(EachEscaped(segment.chars))
         /\ segment.how = "single" => Render(segment) = <<Single>> \o segment.chars \o <<Single>>
         /\ segment.how = "ansi" => Render(segment) = <<Dollar, Single>> \o segment.chars \o <<Single>>
         /\ segment.how = "double"
              => Render(segment) = <<Double>> \o FlattenSeq(InDouble(segment.chars)) \o <<Double>>
         /\ segment.how \in {"plain", "escaped", "single", "ansi", "double"}
<1>1. segment.how \in {"plain", "escaped", "single", "ansi", "double"}
  BY DEF Segment, Allowed
<1>2. segment.how = "double" => Render(segment) = <<Double>> \o FlattenSeq(InDouble(segment.chars)) \o <<Double>>
  BY Zenon DEF Render, InDouble, Special
<1>3. segment.how = "escaped" => Render(segment) = FlattenSeq(EachEscaped(segment.chars))
  BY Zenon DEF Render, EachEscaped
<1> QED
  BY <1>1, <1>2, <1>3 DEF Render

\* As characters.
LEMMA RenderType == ASSUME NEW segment \in Segment PROVE Render(segment) \in Seq(Characters)
<1> DEFINE chars == segment.chars
           one == <<Single>>
           two == <<Dollar, Single>>
           double == <<Double>>
           inside == FlattenSeq(InDouble(chars))
           escaped == FlattenSeq(EachEscaped(chars))
<1>1. chars \in Seq(Characters)
  BY DEF Segment
<1> HIDE DEF chars
<1>2. inside \in Seq(Characters) /\ escaped \in Seq(Characters)
  BY <1>1, UnitTypes, FlattenType
<1>3. one \in Seq(Characters) /\ two \in Seq(Characters) /\ double \in Seq(Characters)
  BY DEF Characters, Specials
<1> HIDE DEF one, two, double, inside, escaped
<1>4. /\ one \o chars \o one \in Seq(Characters) /\ two \o chars \o one \in Seq(Characters)
      /\ double \o inside \o double \in Seq(Characters)
  BY <1>1, <1>2, <1>3
<1> QED
  BY <1>1, <1>2, <1>4, RenderCases DEF chars, one, two, double, inside, escaped

\* Where the parts of a quoted segment stand.
LEMMA QuotedStands ==
  ASSUME NEW txt \in Seq(Characters), NEW a \in Nat,
         NEW opening \in Seq(Characters), NEW body \in Seq(Characters), NEW closing \in Seq(Characters),
         Stands(txt, a, opening \o body \o closing)
  PROVE  /\ Stands(txt, a, opening) /\ Stands(txt, a + Len(opening), body)
         /\ Stands(txt, a + Len(opening) + Len(body), closing)
<1> DEFINE both == opening \o body
<1>1. both \in Seq(Characters) /\ Len(both) = Len(opening) + Len(body)
  OBVIOUS
<1>2. Stands(txt, a, both \o closing)
  OBVIOUS
<1> HIDE DEF both
<1>3. Stands(txt, a, both) /\ Stands(txt, a + Len(both), closing)
  BY Zenon, <1>1, <1>2, StandsApart
<1>4. Stands(txt, a, opening) /\ Stands(txt, a + Len(opening), body)
  BY Zenon, <1>3, StandsApart DEF both
<1>5. a + Len(both) = a + Len(opening) + Len(body)
  <2>1. Len(opening) \in Nat /\ Len(body) \in Nat
    OBVIOUS
  <2> QED
    BY <1>1, <2>1
<1> QED
  BY <1>3, <1>4, <1>5

\* The length of three sequences behind one another.
LEMMA LengthOfThree ==
  ASSUME NEW x \in Seq(Characters), NEW y \in Seq(Characters), NEW z \in Seq(Characters)
  PROVE  Len(x \o y \o z) = Len(x) + Len(y) + Len(z)
<1> DEFINE both == x \o y
<1>1. both \in Seq(Characters)
  OBVIOUS
<1>2. Len(both) = Len(x) + Len(y)
  OBVIOUS
<1> HIDE DEF both
<1>3. Len(both \o z) = Len(both) + Len(z)
  BY <1>1
<1> QED
  BY <1>2, <1>3 DEF both

\* The characters of a short piece.
LEMMA StandsFirst ==
  ASSUME NEW txt \in Seq(Characters), NEW a \in Nat, NEW c, NEW d
  PROVE  /\ Stands(txt, a, <<c>>) => a + 1 <= Len(txt) /\ txt[a + 1] = c
         /\ Stands(txt, a, <<c, d>>) => a + 2 <= Len(txt) /\ txt[a + 1] = c /\ txt[a + 2] = d
<1>1. Len(<<c>>) = 1 /\ <<c>>[1] = c /\ Len(<<c, d>>) = 2 /\ <<c, d>>[1] = c /\ <<c, d>>[2] = d
  OBVIOUS
<1> DEFINE one == <<c>>
           two == <<c, d>>
<1>2. Len(one) = 1 /\ one[1] = c /\ Len(two) = 2 /\ two[1] = c /\ two[2] = d
  BY <1>1
<1> HIDE DEF one, two
<1>3. Stands(txt, a, one) => a + 1 <= Len(txt) /\ txt[a + 1] = c
  BY <1>2 DEF Stands
<1>4. Stands(txt, a, two) => a + 2 <= Len(txt) /\ txt[a + 1] = c /\ txt[a + 2] = d
  BY <1>2 DEF Stands
<1> QED
  BY <1>3, <1>4 DEF one, two

Opening(quote) ==
  CASE quote = "single" -> <<Single>>
    [] quote = "ansi" -> <<Dollar, Single>>
    [] quote = "double" -> <<Double>>

Closing(quote) == IF quote = "double" THEN <<Double>> ELSE <<Single>>

\* Quotes are characters.
LEMMA QuoteTypes ==
  ASSUME NEW quote \in {"single", "ansi", "double"}
  PROVE  Opening(quote) \in Seq(Characters) /\ Closing(quote) \in Seq(Characters)
<1>1. <<Single>> \in Seq(Characters) /\ <<Double>> \in Seq(Characters) /\ <<Dollar, Single>> \in Seq(Characters)
  BY DEF Characters, Specials
<1> QED
  BY <1>1 DEF Opening, Closing

\* A quote, a body and a quote.
LEMMA QuotedRead ==
  ASSUME NEW txt \in Seq(Characters), NEW run, Scans(run, txt), NEW a \in Nat,
         NEW mute \in BOOLEAN, NEW quote \in {"single", "ansi", "double"}, NEW words,
         NEW body \in Seq(Characters), Stands(txt, a, Opening(quote) \o body \o Closing(quote)),
         NEW current, NEW started \in BOOLEAN, NEW after,
         Reads(run[a], mute, "none", current, started, words),
         \A b \in Nat : Stands(txt, b, body) /\ Reads(run[b], mute, quote, current, TRUE, words)
                          => Reads(run[b + Len(body)], mute, quote, after, TRUE, words)
  PROVE  Reads(run[a + Len(Opening(quote) \o body \o Closing(quote))], mute, "none", after, TRUE, words)
<1> DEFINE opening == Opening(quote)
           closing == Closing(quote)
<1>0. opening \in Seq(Characters) /\ closing \in Seq(Characters) /\ Stands(txt, a, opening \o body \o closing)
  BY QuoteTypes
<1> HIDE DEF opening, closing
<1> DEFINE b == a + Len(opening)
           e == b + Len(body)
           whole == opening \o body \o closing
<1>1. Len(txt) \in Nat /\ Len(closing) \in Nat /\ Len(opening) \in Nat /\ Len(body) \in Nat
  BY <1>0
<1>2. Stands(txt, a, opening) /\ Stands(txt, b, body) /\ Stands(txt, e, closing)
  BY Zenon, <1>0, QuotedStands
<1>3. b \in Nat /\ e \in Nat
  BY <1>1
<1>4. a + Len(whole) = e + Len(closing)
  <2>1. Len(whole) = Len(opening) + Len(body) + Len(closing)
    BY Zenon, <1>0, LengthOfThree
  <2> HIDE DEF whole
  <2> QED
    BY <1>1, <2>1
<1> HIDE DEF b, e, whole
<1>5. Reads(run[b], mute, quote, current, TRUE, words)
  <2>1. CASE quote = "ansi"
    <3>1. opening = <<Dollar, Single>>
      BY <2>1 DEF opening, Opening
    <3>2. Len(opening) = 2 /\ opening[1] = Dollar /\ opening[2] = Single
      <4>1. Len(<<Dollar, Single>>) = 2 /\ <<Dollar, Single>>[1] = Dollar /\ <<Dollar, Single>>[2] = Single
        OBVIOUS
      <4> QED
        BY Zenon, <3>1, <4>1
    <3>3. a + 2 <= Len(txt) /\ txt[a + 1] = Dollar /\ txt[a + 2] = Single
      <4>1. Stands(txt, a, <<Dollar, Single>>)
        BY <1>2, <3>1
      <4> QED
        BY Zenon, <4>1, StandsFirst
    <3>4. Reads(run[a + 2], mute, "ansi", current, TRUE, words)
      BY <3>3, AnsiRead
    <3> QED
      BY <2>1, <3>2, <3>4 DEF b
  <2>2. CASE quote \in {"single", "double"}
    <3> DEFINE mark == IF quote = "single" THEN Single ELSE Double
    <3>1. opening = <<mark>>
      BY <2>2 DEF opening, Opening
    <3> HIDE DEF mark
    <3>2. Len(opening) = 1 /\ opening[1] = mark
      BY <3>1
    <3>3. a + 1 <= Len(txt) /\ txt[a + 1] = mark
      <4>1. Stands(txt, a, <<mark>>)
        BY <1>2, <3>1
      <4> QED
        BY Zenon, <4>1, StandsFirst
    <3>4. Reads(run[a + 1], mute, quote, current, TRUE, words)
      BY <2>2, <3>3, OpenedRead DEF mark
    <3> QED
      BY <3>2, <3>4 DEF b
  <2> QED
    BY <2>1, <2>2
<1>6. Reads(run[e], mute, quote, after, TRUE, words)
  BY <1>2, <1>3, <1>5 DEF e
<1>7. Reads(run[e + 1], mute, "none", after, TRUE, words) /\ Len(closing) = 1
  <2> DEFINE mark == IF quote = "double" THEN Double ELSE Single
  <2>1. closing = <<mark>>
    BY DEF closing, Closing
  <2> HIDE DEF mark
  <2>2. Len(closing) = 1 /\ closing[1] = mark
    BY <2>1
  <2>3. e + 1 <= Len(txt) /\ txt[e + 1] = mark
    BY <1>1, <1>2, <1>3, <2>2 DEF Stands
  <2>4. Reads(run[e + 1], mute, "none", after, TRUE, words)
    BY <1>3, <1>6, <2>3, ClosedRead DEF mark
  <2> QED
    BY <2>2, <2>4
<1>8. a + Len(whole) = e + 1
  BY <1>4, <1>7
<1> QED
  BY <1>7, <1>8 DEF whole, opening, closing

\* A segment adds the characters it stands for to the word.
LEMMA SegmentRead ==
  ASSUME NEW txt \in Seq(Characters), NEW run, Scans(run, txt), NEW a \in Nat,
         NEW mute \in BOOLEAN, NEW words, NEW segment \in Segment, IsSegment(segment),
         Stands(txt, a, Render(segment)),
         NEW current \in Seq(Characters), NEW started \in BOOLEAN,
         Reads(run[a], mute, "none", current, started, words)
  PROVE  Reads(run[a + Len(Render(segment))], mute, "none", current \o segment.chars, TRUE, words)
<1> DEFINE chars == segment.chars
           how == segment.how
           after == current \o chars
<1>1. /\ chars \in Seq(Characters) /\ chars \in Seq(Allowed[how])
      /\ how \in {"plain", "escaped"} => chars # <<>>
  BY DEF Segment, IsSegment
<1>2. Len(chars) \in Nat /\ \A i \in 1..Len(chars) : chars[i] \in Allowed[how] /\ chars[i] \in Characters
  BY <1>1
<1> HIDE DEF chars, how
<1>3. CASE how = "plain"
  <2>1. Render(segment) = chars
    BY <1>3, RenderCases DEF chars, how
  <2>2. chars \in Seq(AsItIs("none")) /\ chars # <<>>
    BY <1>1, <1>3 DEF AsItIs, Allowed
  <2>3. Stands(txt, a, chars)
    BY <2>1
  <2>4. Reads(run[a + Len(chars)], mute, "none", after, TRUE, words)
    BY <1>1, <2>2, <2>3, BodyRead
  <2> QED
    BY <2>1, <2>4 DEF chars
<1>4. CASE how = "escaped"
  <2> DEFINE units == EachEscaped(chars)
  <2>1. Render(segment) = FlattenSeq(units)
    BY <1>4, RenderCases DEF chars, how
  <2>2. units \in Seq(Seq(Characters)) /\ Len(units) = Len(chars)
    BY <1>1, UnitTypes
  <2>3. ASSUME NEW k \in 1..Len(chars) PROVE units[k] = Escaped(chars[k]) /\ chars[k] \in Behind("none")
    <3>1. k \in DOMAIN chars
      BY <1>1
    <3>2. Allowed[how] = Allowed.escaped
      BY <1>4
    <3> QED
      BY <1>2, <3>1, <3>2 DEF EachEscaped, Behind
  <2> HIDE DEF units
  <2>4. Stands(txt, a, FlattenSeq(units))
    BY <2>1
  <2>5. chars # <<>>
    BY <1>1, <1>4
  <2>6. Reads(run[a + Len(FlattenSeq(units))], mute, "none", after, TRUE, words)
    BY <1>1, <2>2, <2>3, <2>4, <2>5, EscapedBodyRead
  <2> QED
    BY <2>1, <2>6 DEF chars
<1>5. CASE how \in {"single", "ansi"}
  <2> DEFINE opening == Opening(how)
             closing == Closing(how)
  <2>1. Render(segment) = opening \o chars \o closing
    BY <1>5, RenderCases DEF chars, how, Opening, Closing
  <2>2. opening \in Seq(Characters) /\ closing \in Seq(Characters)
    BY <1>5, QuoteTypes
  <2>3. chars \in Seq(AsItIs(how))
    BY <1>1, <1>5 DEF AsItIs, Allowed
  <2>4. how \in {"single", "ansi", "double"} /\ how \in {"none", "single", "ansi", "double"}
    BY <1>5
  <2>5. ASSUME NEW b \in Nat, Stands(txt, b, chars), Reads(run[b], mute, how, current, TRUE, words)
        PROVE  Reads(run[b + Len(chars)], mute, how, after, TRUE, words)
    BY <1>1, <2>3, <2>4, <2>5, BodyRead
  <2> HIDE DEF opening, closing, after
  <2>6. Stands(txt, a, opening \o chars \o closing)
    BY <2>1
  <2>7. \A b \in Nat : Stands(txt, b, chars) /\ Reads(run[b], mute, how, current, TRUE, words)
                       => Reads(run[b + Len(chars)], mute, how, after, TRUE, words)
    BY <2>5
  <2>8. Reads(run[a + Len(opening \o chars \o closing)], mute, "none", after, TRUE, words)
    BY Zenon, <1>1, <2>4, <2>6, <2>7, QuotedRead DEF opening, closing
  <2> QED
    BY <2>1, <2>8 DEF after, chars
<1>6. CASE how = "double"
  <2> DEFINE opening == Opening("double")
             closing == Closing("double")
             units == InDouble(chars)
             body == FlattenSeq(units)
  <2>1. Render(segment) = opening \o body \o closing
    BY <1>6, RenderCases DEF chars, how, Opening, Closing
  <2>2. opening \in Seq(Characters) /\ closing \in Seq(Characters)
    BY QuoteTypes
  <2>3. units \in Seq(Seq(Characters)) /\ Len(units) = Len(chars)
    BY <1>1, UnitTypes
  <2>4. ASSUME NEW k \in 1..Len(chars)
        PROVE  \/ units[k] = <<chars[k]>> /\ chars[k] \in AsItIs("double")
               \/ units[k] = Escaped(chars[k]) /\ chars[k] \in Behind("double")
    <3>1. k \in DOMAIN chars
      BY <1>1
    <3>2. units[k] = IF chars[k] \in Special THEN Escaped(chars[k]) ELSE <<chars[k]>>
      BY <3>1 DEF InDouble
    <3>3. chars[k] \in Allowed.double
      BY <1>2, <1>6
    <3> QED
      BY <3>2, <3>3 DEF AsItIs, Behind
  <2> HIDE DEF units
  <2>5. body \in Seq(Characters)
    BY <2>3, FlattenType
  <2>6. ASSUME NEW b \in Nat, Stands(txt, b, body), Reads(run[b], mute, "double", current, TRUE, words)
        PROVE  Reads(run[b + Len(body)], mute, "double", after, TRUE, words)
    BY <1>1, <2>3, <2>4, <2>6, EscapedBodyRead
  <2> HIDE DEF opening, closing, after, body
  <2>7. Stands(txt, a, opening \o body \o closing)
    BY <2>1
  <2>8. \A b \in Nat : Stands(txt, b, body) /\ Reads(run[b], mute, "double", current, TRUE, words)
                       => Reads(run[b + Len(body)], mute, "double", after, TRUE, words)
    BY <2>6
  <2>9. "double" \in {"single", "ansi", "double"}
    OBVIOUS
  <2>10. Reads(run[a + Len(opening \o body \o closing)], mute, "none", after, TRUE, words)
    BY Zenon, <2>5, <2>7, <2>8, <2>9, QuotedRead DEF opening, closing
  <2> QED
    BY <2>1, <2>10 DEF after, chars
<1> QED
  BY <1>3, <1>4, <1>5, <1>6, RenderCases DEF how

\* Words are written and spelled in characters.
LEMMA RenderWordType ==
  ASSUME NEW word \in Seq(Segment)
  PROVE  /\ [i \in DOMAIN word |-> Render(word[i])] \in Seq(Seq(Characters))
         /\ [i \in DOMAIN word |-> word[i].chars] \in Seq(Seq(Characters))
         /\ RenderWord(word) \in Seq(Characters) /\ Spell(word) \in Seq(Characters)
<1> DEFINE T == Seq(Characters)
           rendered == [i \in DOMAIN word |-> Render(word[i])]
           spelled == [i \in DOMAIN word |-> word[i].chars]
<1>1. Len(word) \in Nat /\ DOMAIN word = 1..Len(word) /\ \A i \in 1..Len(word) : word[i] \in Segment
  OBVIOUS
<1>2. ASSUME NEW segment \in Segment PROVE Render(segment) \in T /\ segment.chars \in T
  BY RenderType DEF Segment
<1> HIDE DEF T
<1>3. rendered \in [1..Len(word) -> T] /\ spelled \in [1..Len(word) -> T]
  BY <1>1, <1>2
<1>4. rendered \in Seq(T) /\ spelled \in Seq(T)
  <2> HIDE DEF rendered, spelled
  <2> QED
    BY <1>1, <1>3
<1> HIDE DEF rendered, spelled
<1>5. FlattenSeq(rendered) \in Seq(Characters) /\ FlattenSeq(spelled) \in Seq(Characters)
  BY <1>4, FlattenType DEF T
<1> QED
  BY <1>4, <1>5 DEF T, rendered, spelled, RenderWord, Spell

\* A word is read segment by segment.
LEMMA WordRead ==
  ASSUME NEW txt \in Seq(Characters), NEW run, Scans(run, txt), NEW a \in Nat,
         NEW mute \in BOOLEAN, NEW words, NEW word \in Seq(Segment), word # <<>>,
         \A j \in DOMAIN word : IsSegment(word[j]),
         Stands(txt, a, RenderWord(word)),
         Reads(run[a], mute, "none", <<>>, FALSE, words)
  PROVE  Reads(run[a + Len(RenderWord(word))], mute, "none", Spell(word), TRUE, words)
<1> DEFINE rendered == [i \in DOMAIN word |-> Render(word[i])]
           spelled == [i \in DOMAIN word |-> word[i].chars]
           N == Len(word)
<1>1. N \in Nat /\ N # 0 /\ DOMAIN word = 1..N /\ \A k \in 1..N : word[k] \in Segment /\ IsSegment(word[k])
  OBVIOUS
<1>2. /\ rendered \in Seq(Seq(Characters)) /\ Len(rendered) = N /\ \A k \in 1..N : rendered[k] = Render(word[k])
      /\ spelled \in Seq(Seq(Characters)) /\ Len(spelled) = N /\ \A k \in 1..N : spelled[k] = word[k].chars
  <2>1. rendered \in Seq(Seq(Characters)) /\ spelled \in Seq(Seq(Characters))
    BY RenderWordType
  <2> QED
    BY <1>1, <2>1
<1>3. RenderWord(word) = FlattenSeq(rendered) /\ Spell(word) = FlattenSeq(spelled)
  BY DEF RenderWord, Spell
<1> HIDE DEF rendered, spelled, N
<1>4. PICK off : Splits(off, txt, a, rendered)
  <2>1. Stands(txt, a, FlattenSeq(rendered))
    BY <1>3
  <2> QED
    BY <1>2, <2>1, FlattenSplits
<1>5. PICK flat : /\ flat[0] = <<>>
                  /\ \A k \in 1..Len(spelled) : flat[k] = flat[k - 1] \o spelled[k]
                  /\ \A k \in 0..Len(spelled) : flat[k] \in Seq(Characters)
                  /\ FlattenSeq(spelled) = flat[Len(spelled)]
  BY <1>2, FlattenRun
<1>6. /\ off[0] = a /\ off[N] = a + Len(RenderWord(word)) /\ \A k \in 0..N : off[k] \in Nat
      /\ \A k \in 1..N : off[k] = off[k - 1] + Len(Render(word[k])) /\ Stands(txt, off[k - 1], Render(word[k]))
  BY <1>2, <1>3, <1>4 DEF Splits
<1>7. /\ flat[0] = <<>> /\ flat[N] = Spell(word) /\ \A k \in 0..N : flat[k] \in Seq(Characters)
      /\ \A k \in 1..N : flat[k] = flat[k - 1] \o word[k].chars
  BY <1>2, <1>3, <1>5
<1> DEFINE At(k) == \E st \in BOOLEAN : (k # 0 => st = TRUE) /\ Reads(run[off[k]], mute, "none", flat[k], st, words)
           P == {k \in Nat : At(k)}
<1>8. 0 \in P
  BY <1>6, <1>7
<1>9. ASSUME NEW k \in 0..N - 1, k \in P PROVE k + 1 \in P
  <2> DEFINE m == k + 1
  <2>1. m \in 1..N /\ m - 1 = k /\ k \in 0..N /\ m \in Nat
    BY <1>1
  <2>2. PICK st \in BOOLEAN : Reads(run[off[k]], mute, "none", flat[k], st, words)
    BY <1>9
  <2> HIDE DEF m
  <2>3. /\ off[m] = off[k] + Len(Render(word[m])) /\ Stands(txt, off[k], Render(word[m])) /\ off[k] \in Nat
        /\ flat[m] = flat[k] \o word[m].chars /\ flat[k] \in Seq(Characters)
        /\ word[m] \in Segment /\ IsSegment(word[m])
    BY <1>1, <1>6, <1>7, <2>1
  <2>4. Reads(run[off[m]], mute, "none", flat[m], TRUE, words)
    BY <2>2, <2>3, SegmentRead
  <2>5. m \in P
    BY <2>1, <2>4
  <2> QED
    BY <2>5 DEF m
<1>10. N \in P
  <2> HIDE DEF P
  <2>1. \A k \in 0..N - 1 : k \in P => k + 1 \in P
    BY <1>9
  <2>2. 0..N \subseteq P
    BY <1>1, <1>8, <2>1, BoundedInduction
  <2> QED
    BY <1>1, <2>2
<1>11. Reads(run[off[N]], mute, "none", flat[N], TRUE, words)
  BY <1>1, <1>10
<1> QED
  BY <1>6, <1>7, <1>11

-----------------------------------------------------------------------------
(* What is never left.                                                     *)

\* The states of both scans.
LEMMA ScansType ==
  ASSUME NEW txt \in Seq(Characters), NEW run, Scans(run, txt)
  PROVE  \A i \in 0..Len(txt) : run[i].s \in StaticType /\ run[i].k \in ControlType
<1> DEFINE N == Len(txt)
           P == {i \in Nat : run[i].s \in StaticType /\ run[i].k \in ControlType}
<1>1. N \in Nat
  OBVIOUS
<1>2. 0 \in P
  <2>1. NoControl \in ControlType
    BY DEF NoControl, ControlType
  <2> DEFINE none == <<>>
  <2>2. none \in Seq(Characters) /\ none \in Seq(Seq(Characters))
    OBVIOUS
  <2> HIDE DEF none
  <2>3. NoWords \in StaticType
    BY <2>2 DEF NoWords, StaticType, none
  <2> QED
    BY <2>1, <2>3 DEF Scans
<1>3. ASSUME NEW i \in 0..N - 1, i \in P PROVE i + 1 \in P
  <2>1. i \in Nat /\ i + 1 <= Len(txt) /\ i + 1 \in Nat
    BY <1>1
  <2>2. /\ run[i + 1].s = AfterStatic(run[i].s, txt[i + 1], Following(txt, i + 1))
        /\ run[i + 1].k = AfterControl(run[i].k, txt[i + 1], Following(txt, i + 1))
        /\ txt[i + 1] \in Characters /\ Following(txt, i + 1) \in Characters \cup {NoCharacter}
    BY <2>1, CharacterRead
  <2>3. run[i].s \in StaticType /\ run[i].k \in ControlType
    BY <1>3
  <2> HIDE DEF P
  <2>4. run[i + 1].s \in StaticType /\ run[i + 1].k \in ControlType
    BY <2>2, <2>3, StaticTypes, ControlTypes
  <2> QED
    BY <2>1, <2>4 DEF P
<1> HIDE DEF P
<1>4. \A i \in 0..N - 1 : i \in P => i + 1 \in P
  BY <1>3
<1>5. 0..N \subseteq P
  BY <1>1, <1>2, <1>4, BoundedInduction
<1> QED
  BY <1>5 DEF P

\* A scan for words that has ended and an operator that is found.
LEMMA EndsKept ==
  ASSUME NEW txt \in Seq(Characters), NEW run, Scans(run, txt), NEW a \in Nat,
         NEW b \in Nat, a <= b, b <= Len(txt)
  PROVE  /\ run[a].s.verdict # "reading" => run[b].s = run[a].s
         /\ ~Clear(run[a].k) => ~Clear(run[b].k)
<1> DEFINE N == b - a
           P == {d \in Nat : /\ run[a].s.verdict # "reading" => run[a + d].s = run[a].s
                             /\ ~Clear(run[a].k) => ~Clear(run[a + d].k)}
<1>1. N \in Nat /\ a + N = b /\ a + 0 = a
  OBVIOUS
<1>2. 0 \in P
  BY <1>1
<1>3. ASSUME NEW d \in 0..N - 1, d \in P PROVE d + 1 \in P
  <2> DEFINE c == a + d
  <2>1. c \in Nat /\ c + 1 <= Len(txt) /\ c \in 0..Len(txt) /\ c + 1 = a + (d + 1) /\ d + 1 \in Nat
    BY <1>1
  <2>2. /\ run[a].s.verdict # "reading" => run[c].s = run[a].s
        /\ ~Clear(run[a].k) => ~Clear(run[c].k)
    BY <1>3
  <2> HIDE DEF c, P, N
  <2>3. /\ run[c + 1].k = AfterControl(run[c].k, txt[c + 1], Following(txt, c + 1))
        /\ run[c].s.verdict # "reading" => run[c + 1].s = run[c].s
    BY <2>1, CharacterRead
  <2>4. run[c].k \in ControlType
    BY <2>1, ScansType
  <2>5. ~Clear(run[c].k) => ~Clear(run[c + 1].k)
    BY <2>3, <2>4, FoundIsKept
  <2> QED
    BY <2>1, <2>2, <2>3, <2>5 DEF P
<1> HIDE DEF P, N
<1>4. \A d \in 0..N - 1 : d \in P => d + 1 \in P
  BY <1>3
<1>5. 0..N \subseteq P
  BY <1>1, <1>2, <1>4, BoundedInduction
<1>6. N \in P
  BY <1>1, <1>5
<1> QED
  BY <1>1, <1>6 DEF P

\* Blanks and an operator end the words.
LEMMA OperatorRead ==
  ASSUME NEW txt \in Seq(Characters), NEW run, Scans(run, txt), NEW a \in Nat,
         NEW mute \in BOOLEAN, NEW current, NEW words, NEW before \in Seq(Characters),
         Stands(txt, a, before), BeginsOperator(before),
         Reads(run[a], mute, "none", current, TRUE, words)
  PROVE  /\ ~Clear(run[a + Len(before)].k)
         /\ ~mute => run[a + Len(before)].s.verdict = "unsafe"
<1>1. PICK n \in 1..Len(before) : before[n] \in {Pipe, Amp, Open, Operator} /\ \A m \in 1..n - 1 : before[m] = Blank
  BY DEF BeginsOperator
<1>2. Len(before) \in Nat /\ n \in Nat /\ n # 0 /\ n <= Len(before) /\ a + Len(before) <= Len(txt) /\ Len(txt) \in Nat
  BY DEF Stands
<1>3. \A m \in 1..Len(before) : txt[a + m] = before[m]
  BY DEF Stands
<1> DEFINE P == {j \in Nat : \E now, more : \/ Reads(run[a + j], mute, "none", now, TRUE, more)
                                            \/ Reads(run[a + j], mute, "none", now, FALSE, more)}
<1>4. 0 \in P
  <2>1. a + 0 = a
    OBVIOUS
  <2> QED
    BY <2>1
<1>5. ASSUME NEW j \in 0..(n - 1) - 1, j \in P PROVE j + 1 \in P
  <2> DEFINE b == a + j
  <2>1. b \in Nat /\ b + 1 = a + (j + 1) /\ b + 1 <= Len(txt) /\ j + 1 \in 1..n - 1 /\ j + 1 \in Nat
    BY <1>2
  <2>2. txt[b + 1] = Blank
    <3> DEFINE m == j + 1
    <3>1. m \in 1..n - 1 /\ m \in 1..Len(before) /\ b + 1 = a + m
      BY <1>2, <2>1
    <3> HIDE DEF m, b
    <3>2. before[m] = Blank /\ txt[a + m] = before[m]
      BY <1>1, <1>3, <3>1
    <3> QED
      BY <3>1, <3>2
  <2>3. PICK now, more : Reads(run[b], mute, "none", now, TRUE, more) \/ Reads(run[b], mute, "none", now, FALSE, more)
    BY <1>5
  <2> HIDE DEF b
  <2>4. /\ Reads(run[b], mute, "none", now, TRUE, more)
             => Reads(run[b + 1], mute, "none", <<>>, FALSE, Append(more, now))
        /\ Reads(run[b], mute, "none", now, FALSE, more) => Reads(run[b + 1], mute, "none", <<>>, FALSE, more)
    BY <2>1, <2>2, BlankRead
  <2> QED
    BY <2>1, <2>3, <2>4
<1>6. n - 1 \in P
  <2> HIDE DEF P
  <2>1. \A j \in 0..(n - 1) - 1 : j \in P => j + 1 \in P
    BY <1>5
  <2>2. n - 1 \in Nat
    BY <1>2
  <2>3. 0..n - 1 \subseteq P
    BY <1>4, <2>1, <2>2, BoundedInduction
  <2> QED
    BY <2>2, <2>3
<1> DEFINE b == a + (n - 1)
<1>7. b \in Nat /\ b + 1 = a + n /\ b + 1 <= a + Len(before) /\ b + 1 <= Len(txt)
  BY <1>2
<1>8. PICK now, more : \E started \in BOOLEAN : Reads(run[b], mute, "none", now, started, more)
  BY <1>6
<1> HIDE DEF b, P
<1> DEFINE c == txt[b + 1]
           next == Following(txt, b + 1)
<1>9. /\ run[b + 1].s = AfterStatic(run[b].s, c, next) /\ run[b + 1].k = AfterControl(run[b].k, c, next)
  BY <1>7, CharacterRead
<1>10. c \in {Pipe, Amp, Open, Operator}
  BY <1>1, <1>2, <1>3, <1>7
<1> HIDE DEF c, next
<1>11. Calm(run[b].k, "none") /\ (~mute => \E started \in BOOLEAN : Spells(run[b].s, "none", now, started, more))
  BY <1>8 DEF Reads
<1>12. ~Clear(run[b + 1].k) /\ (~mute => run[b + 1].s.verdict = "unsafe")
  BY <1>9, <1>10, <1>11, OperatorFound
<1>13. b + 1 \in Nat /\ a + Len(before) \in Nat /\ a + Len(before) <= Len(txt)
  BY <1>2, <1>7
<1>14. /\ run[b + 1].s.verdict # "reading" => run[a + Len(before)].s = run[b + 1].s
       /\ ~Clear(run[b + 1].k) => ~Clear(run[a + Len(before)].k)
  BY Zenon, <1>7, <1>13, EndsKept
<1> QED
  BY <1>12, <1>14

\* A blank and a hash begin a comment.
LEMMA CommentRead ==
  ASSUME NEW txt \in Seq(Characters), NEW run, Scans(run, txt), NEW a \in Nat,
         NEW mute \in BOOLEAN, NEW current, NEW words, Stands(txt, a, Comment),
         Reads(run[a], mute, "none", current, TRUE, words)
  PROVE  /\ Reads(run[a + 2], TRUE, "none", <<>>, FALSE, words)
         /\ run[a].s.verdict = "reading" => Gives(run[a + 2].s, Append(words, current))
<1> DEFINE b == a + 1
           now == Append(words, current)
           next == Following(txt, b + 1)
<1>1. a + 2 <= Len(txt) /\ txt[a + 1] = Blank /\ txt[a + 2] = Hash
  BY StandsFirst DEF Comment
<1>2. b \in Nat /\ b + 1 = a + 2 /\ a + 1 <= Len(txt) /\ b + 1 <= Len(txt)
  BY <1>1
<1>3. Reads(run[b], mute, "none", <<>>, FALSE, now)
  BY <1>1, <1>2, BlankRead
<1>4. txt[b + 1] = Hash
  BY <1>1, <1>2
<1> HIDE DEF b, now
<1>5. /\ run[b + 1].s = AfterStatic(run[b].s, Hash, next) /\ run[b + 1].k = AfterControl(run[b].k, Hash, next)
      /\ run[b].s.verdict # "reading" => run[b + 1].s = run[b].s
  BY <1>2, <1>4, CharacterRead
<1> HIDE DEF next
<1>6. Calm(run[b].k, "none") /\ (~mute => Spells(run[b].s, "none", <<>>, FALSE, now))
      /\ (mute => run[b].s.verdict = "commented")
  BY <1>3 DEF Reads
<1>7. Calm(run[b + 1].k, "none")
  <2>1. AfterControl(run[b].k, Hash, next) = run[b].k
    <3>1. run[b].k \in ControlType /\ ~run[b].k.bad /\ ~run[b].k.skip /\ run[b].k.quote = "none"
      BY <1>6 DEF Calm, Clear, ControlQuote
    <3> QED
      BY <3>1 DEF AfterControl, OutsideSingles, Hash, Double, Single, Dollar, Backtick, Backslash, Pipe, Amp, Open,
                  Operator, Nul, Newline
  <2> QED
    BY <1>5, <1>6, <2>1
<1>8. run[b + 1].s.verdict = "commented" /\ (~mute => Gives(run[b + 1].s, now))
  <2>1. CASE mute
    BY <1>5, <1>6, <2>1
  <2>2. CASE ~mute
    <3>1. Gives(AfterStatic(run[b].s, Hash, next), now)
      BY <1>6, <2>2, CommentBegins
    <3> QED
      BY <1>5, <3>1 DEF Gives
  <2> QED
    BY <2>1, <2>2
<1>9. Reads(run[b + 1], TRUE, "none", <<>>, FALSE, words)
  BY <1>7, <1>8 DEF Reads
<1>10. run[a].s.verdict = "reading" => ~mute
  BY DEF Reads
<1> QED
  BY <1>2, <1>8, <1>9, <1>10 DEF now

\* A blank, a comment and an operator are told apart.
LEMMA Partings ==
  /\ <<Blank>> # Comment /\ <<Blank>> # <<>> /\ Comment # <<>>
  /\ ~BeginsOperator(<<>>) /\ ~BeginsOperator(<<Blank>>) /\ ~BeginsOperator(Comment)
<1>1. Blank \notin {Pipe, Amp, Open, Operator} /\ Hash \notin {Pipe, Amp, Open, Operator}
  BY DEF Blank, Hash, Pipe, Amp, Open, Operator
<1>2. /\ Len(<<Blank>>) = 1 /\ Len(<<Blank, Hash>>) = 2 /\ DOMAIN <<Blank>> = 1..1 /\ DOMAIN <<Blank, Hash>> = 1..2
      /\ <<Blank>>[1] = Blank /\ <<Blank, Hash>>[1] = Blank /\ <<Blank, Hash>>[2] = Hash
  OBVIOUS
<1>3. <<Blank>> # Comment /\ <<Blank>> # <<>> /\ Comment # <<>>
  BY <1>2 DEF Comment
<1> DEFINE one == <<Blank>>
           two == <<Blank, Hash>>
<1>4. DOMAIN one = 1..1 /\ one[1] = Blank /\ DOMAIN two = 1..2 /\ two[1] = Blank /\ two[2] = Hash
  BY <1>2
<1> HIDE DEF one, two
<1>5. \A n \in DOMAIN one : one[n] \notin {Pipe, Amp, Open, Operator}
  <2>1. \A n \in 1..1 : n = 1
    OBVIOUS
  <2> QED
    BY <1>1, <1>4, <2>1
<1>6. \A n \in DOMAIN two : two[n] \notin {Pipe, Amp, Open, Operator}
  <2>1. \A n \in 1..2 : n = 1 \/ n = 2
    OBVIOUS
  <2> QED
    BY <1>1, <1>4, <2>1
<1>7. ~BeginsOperator(one) /\ ~BeginsOperator(two)
  BY Zenon, <1>5, <1>6 DEF BeginsOperator
<1>8. ~BeginsOperator(<<>>)
  <2>1. DOMAIN <<>> = {}
    OBVIOUS
  <2> QED
    BY Zenon, <2>1 DEF BeginsOperator
<1> QED
  BY <1>3, <1>7, <1>8 DEF one, two, Comment

\* From a to e stand a word and what is before it.
WordStands(txt, a, e, before, rendered) ==
  /\ Stands(txt, a, before) /\ Stands(txt, a + Len(before), rendered)
  /\ e = a + Len(before) + Len(rendered)

\* Where a word ends.
LEMMA WordEnds ==
  ASSUME NEW txt \in Seq(Characters), NEW before \in Seq(Characters), NEW rendered \in Seq(Characters),
         NEW a \in Nat, NEW e, WordStands(txt, a, e, before, rendered)
  PROVE  e \in Nat /\ a <= e /\ e <= Len(txt)
<1>1. Len(before) \in Nat /\ Len(rendered) \in Nat /\ Len(txt) \in Nat
  OBVIOUS
<1> QED
  BY <1>1 DEF WordStands, Stands

\* Behind a blank the word is the next one.
LEMMA BlankPartRead ==
  ASSUME NEW txt \in Seq(Characters), NEW run, Scans(run, txt), NEW a \in Nat, NEW e \in Nat,
         NEW mute \in BOOLEAN, NEW current, NEW words,
         NEW word \in Seq(Segment), word # <<>>, \A j \in DOMAIN word : IsSegment(word[j]),
         WordStands(txt, a, e, <<Blank>>, RenderWord(word)),
         Reads(run[a], mute, "none", current, TRUE, words)
  PROVE  Reads(run[e], mute, "none", Spell(word), TRUE, Append(words, current))
<1> DEFINE more == Append(words, current)
<1>1. Len(<<Blank>>) = 1
  OBVIOUS
<1>2. Stands(txt, a, <<Blank>>) /\ Stands(txt, a + 1, RenderWord(word)) /\ e = a + 1 + Len(RenderWord(word))
  BY <1>1 DEF WordStands
<1>3. a + 1 <= Len(txt) /\ txt[a + 1] = Blank
  BY <1>2, StandsFirst
<1>4. Reads(run[a + 1], mute, "none", <<>>, FALSE, more)
  BY <1>3, BlankRead
<1> HIDE DEF more
<1>5. Reads(run[a + 1 + Len(RenderWord(word))], mute, "none", Spell(word), TRUE, more)
  <2> DEFINE mid == a + 1
  <2>1. mid \in Nat /\ Stands(txt, mid, RenderWord(word))
    BY <1>2
  <2> HIDE DEF mid
  <2>2. Reads(run[mid + Len(RenderWord(word))], mute, "none", Spell(word), TRUE, more)
    BY <2>1, <1>4, WordRead DEF mid
  <2> QED
    BY <2>2 DEF mid
<1> QED
  BY <1>2, <1>5 DEF more

\* Behind a comment it is read for operators only.
LEMMA CommentPartRead ==
  ASSUME NEW txt \in Seq(Characters), NEW run, Scans(run, txt), NEW a \in Nat, NEW e \in Nat,
         NEW mute \in BOOLEAN, NEW current, NEW words,
         NEW word \in Seq(Segment), word # <<>>, \A j \in DOMAIN word : IsSegment(word[j]),
         WordStands(txt, a, e, Comment, RenderWord(word)),
         Reads(run[a], mute, "none", current, TRUE, words)
  PROVE  /\ Reads(run[e], TRUE, "none", <<>>, TRUE, <<>>)
         /\ run[a].s.verdict = "reading" => Gives(run[e].s, Append(words, current))
<1>1. Len(Comment) = 2
  BY DEF Comment
<1>2. Stands(txt, a, Comment) /\ Stands(txt, a + 2, RenderWord(word)) /\ e = a + 2 + Len(RenderWord(word))
  BY <1>1 DEF WordStands
<1>3. /\ Reads(run[a + 2], TRUE, "none", <<>>, FALSE, words)
      /\ run[a].s.verdict = "reading" => Gives(run[a + 2].s, Append(words, current))
  BY <1>2, CommentRead
<1>4. Reads(run[a + 2 + Len(RenderWord(word))], TRUE, "none", Spell(word), TRUE, words)
  <2> DEFINE mid == a + 2
  <2>1. mid \in Nat /\ Stands(txt, mid, RenderWord(word))
    BY <1>2
  <2> HIDE DEF mid
  <2>2. Reads(run[mid + Len(RenderWord(word))], TRUE, "none", Spell(word), TRUE, words)
    BY <2>1, <1>3, WordRead DEF mid
  <2> QED
    BY <2>2 DEF mid
<1>5. run[e].s = run[a + 2].s
  <2>1. RenderWord(word) \in Seq(Characters)
    BY Zenon, RenderWordType
  <2> DEFINE mid == a + 2
             rendered == RenderWord(word)
  <2>2. mid \in Nat /\ Stands(txt, mid, rendered) /\ e = mid + Len(rendered) /\ rendered \in Seq(Characters)
    BY <1>2, <2>1
  <2>3. run[mid].s.verdict = "commented"
    BY <1>3 DEF Reads
  <2> HIDE DEF mid, rendered
  <2>4. Len(rendered) \in Nat
    BY <2>2
  <2>5. mid <= e /\ e <= Len(txt)
    BY <2>2, <2>4 DEF Stands
  <2>6. run[mid].s.verdict # "reading" => run[e].s = run[mid].s
    BY <2>2, <2>5, EndsKept
  <2> QED
    BY <2>3, <2>6 DEF mid
<1> QED
  BY <1>2, <1>3, <1>4, <1>5 DEF Reads

\* Behind an operator neither scan reports words.
LEMMA OperatorPartRead ==
  ASSUME NEW txt \in Seq(Characters), NEW run, Scans(run, txt), NEW a \in Nat, NEW e \in Nat,
         NEW mute \in BOOLEAN, NEW current, NEW words,
         NEW before \in Seq(Characters), BeginsOperator(before), NEW rendered \in Seq(Characters),
         WordStands(txt, a, e, before, rendered),
         Reads(run[a], mute, "none", current, TRUE, words)
  PROVE  ~Clear(run[e].k) /\ (run[a].s.verdict = "reading" => run[e].s.verdict = "unsafe")
<1> DEFINE mid == a + Len(before)
<1>1. mid \in Nat /\ Len(rendered) \in Nat /\ e = mid + Len(rendered) /\ Stands(txt, a, before)
  BY DEF WordStands
<1>2. run[a].s.verdict = "reading" => ~mute
  BY DEF Reads
<1>3. ~Clear(run[mid].k) /\ (~mute => run[mid].s.verdict = "unsafe")
  BY <1>1, OperatorRead
<1>4. mid <= e /\ e <= Len(txt)
  BY <1>1, WordEnds
<1> HIDE DEF mid
<1>5. /\ run[mid].s.verdict # "reading" => run[e].s = run[mid].s
      /\ ~Clear(run[mid].k) => ~Clear(run[e].k)
  BY <1>1, <1>4, EndsKept
<1> QED
  BY <1>2, <1>3, <1>5

\* What stands before a word ends the words, or is an operator too.
Stops(before) == before \notin {<<>>, <<Blank>>}
Operates(before) == before \notin {<<>>, <<Blank>>, Comment}

\* The words of a line up to the k-th, and what is written of each.
Known(written, k) == [i \in 1..k |-> Spell(written[i].word)]
Rendered(written) == [i \in DOMAIN written |-> written[i].before \o RenderWord(written[i].word)]

\* What a line is made of, and its text.
LEMMA LineTypes ==
  ASSUME NEW written, IsLine(written)
  PROVE  /\ Len(written) \in Nat /\ DOMAIN written = 1..Len(written)
         /\ \A i \in 1..Len(written) :
              /\ written[i].before \in Seq(Characters) /\ written[i].word \in Seq(Segment) /\ written[i].word # <<>>
              /\ \A j \in DOMAIN written[i].word : IsSegment(written[i].word[j])
              /\ IF i = 1 THEN written[i].before = <<>> ELSE Parts(written[i].before)
              /\ Spell(written[i].word) \in Seq(Characters)
         /\ Rendered(written) \in Seq(Seq(Characters)) /\ Len(Rendered(written)) = Len(written)
         /\ RenderLine(written) = FlattenSeq(Rendered(written)) /\ RenderLine(written) \in Seq(Characters)
<1> DEFINE N == Len(written)
           T == Seq(Characters)
           R == [before : Seq(Characters), word : Seq(Segment)]
<1>1. written \in Seq(R)
  BY DEF IsLine
<1>2. N \in Nat /\ DOMAIN written = 1..N /\ \A i \in 1..N : written[i] \in R
  <2> HIDE DEF R
  <2> QED
    BY <1>1
<1>3. \A i \in 1..N : written[i].before \in T /\ written[i].word \in Seq(Segment)
  BY <1>2
<1>4. \A i \in 1..N :
        /\ IF i = 1 THEN written[i].before = <<>> ELSE Parts(written[i].before)
        /\ written[i].word # <<>>
        /\ \A j \in DOMAIN written[i].word : IsSegment(written[i].word[j])
  BY <1>2 DEF IsLine
<1>5. ASSUME NEW i \in 1..N
      PROVE  Spell(written[i].word) \in T /\ written[i].before \o RenderWord(written[i].word) \in T
  <2> DEFINE word == written[i].word
             before == written[i].before
  <2>1. word \in Seq(Segment) /\ before \in Seq(Characters)
    BY <1>3
  <2> HIDE DEF word, before
  <2>2. Spell(word) \in Seq(Characters) /\ RenderWord(word) \in Seq(Characters)
    BY Zenon, <2>1, RenderWordType
  <2>3. before \o RenderWord(word) \in Seq(Characters)
    BY <2>1, <2>2
  <2> QED
    BY <2>2, <2>3 DEF word, before
<1> HIDE DEF T, N
<1>6. Rendered(written) \in Seq(T) /\ Len(Rendered(written)) = N
  <2>1. N \in Nat /\ Rendered(written) \in [1..N -> T]
    BY <1>2, <1>5 DEF Rendered
  <2>2. \A f \in [1..N -> T] : f \in Seq(T) /\ Len(f) = N
    BY <2>1
  <2> QED
    BY <2>1, <2>2
<1>7. RenderLine(written) = FlattenSeq(Rendered(written))
  BY Zenon DEF RenderLine, Rendered
<1>8. RenderLine(written) \in Seq(Characters)
  BY <1>6, <1>7, FlattenType DEF T
<1> QED
  BY <1>2, <1>3, <1>4, <1>5, <1>6, <1>7, <1>8 DEF T, N

\* The words up to one are those before it and that one.
LEMMA KnownAppend ==
  ASSUME NEW written, IsLine(written), NEW k \in 1..Len(written)
  PROVE  Append(Known(written, k - 1), Spell(written[k].word)) = Known(written, k)
<1> DEFINE spelled == [i \in 1..Len(written) |-> Spell(written[i].word)]
           T == Seq(Characters)
<1>1. Len(written) \in Nat /\ \A i \in 1..Len(written) : Spell(written[i].word) \in T
  BY LineTypes
<1> HIDE DEF T
<1>2. spelled \in [1..Len(written) -> T]
  BY <1>1
<1>3. /\ Known(written, k - 1) = [i \in 1..k - 1 |-> spelled[i]] /\ Known(written, k) = [i \in 1..k |-> spelled[i]]
      /\ Spell(written[k].word) = spelled[k]
  BY <1>1 DEF Known
<1> HIDE DEF spelled
<1> DEFINE left == [i \in 1..k - 1 |-> spelled[i]]
           right == [i \in 1..k |-> spelled[i]]
<1>4. left \in Seq(T) /\ Len(left) = k - 1 /\ right \in Seq(T) /\ Len(right) = k /\ spelled[k] \in T
  BY <1>1, <1>2
<1>5. \A i \in 1..k - 1 : left[i] = right[i]
  BY <1>1
<1>6. right[k] = spelled[k]
  BY <1>1
<1> HIDE DEF left, right
<1> DEFINE longer == Append(left, spelled[k])
<1>7. longer \in Seq(T) /\ Len(longer) = k /\ longer[k] = spelled[k] /\ \A i \in 1..k - 1 : longer[i] = left[i]
  BY <1>1, <1>4
<1> HIDE DEF longer
<1>8. \A i \in 1..Len(longer) : longer[i] = right[i]
  <2>1. \A i \in 1..k : i = k \/ i \in 1..k - 1
    BY <1>1
  <2> QED
    BY <1>5, <1>6, <1>7, <2>1
<1>9. longer = right
  BY <1>4, <1>7, <1>8, SeqEqual
<1> QED
  BY <1>3, <1>9 DEF longer, left, right

\* Behind the k-th word of a line.
LineRead(written, at, k) ==
  /\ (\A i \in 1..k : ~Stops(written[i].before))
       => Reads(at, FALSE, "none", Spell(written[k].word), TRUE, Known(written, k - 1))
  /\ (\E i \in 1..k : Stops(written[i].before)) /\ (\A i \in 1..k : ~Operates(written[i].before))
       => Reads(at, TRUE, "none", <<>>, TRUE, <<>>)
  /\ (\E i \in 1..k : Operates(written[i].before)) => ~Clear(at.k)
  /\ \A i \in 1..k :
       Stops(written[i].before) /\ (\A j \in 1..i - 1 : ~Stops(written[j].before))
         => IF written[i].before = Comment
              THEN Gives(at.s, Known(written, i - 1))
              ELSE at.s.verdict = "unsafe"

\* The first word.
LEMMA FirstRead ==
  ASSUME NEW txt \in Seq(Characters), NEW run, Scans(run, txt), NEW written, IsLine(written), Len(written) # 0,
         Stands(txt, 0, RenderWord(written[1].word))
  PROVE  LineRead(written, run[Len(RenderWord(written[1].word))], 1)
<1> DEFINE word == written[1].word
<1>1. /\ written[1].before = <<>> /\ word \in Seq(Segment) /\ word # <<>>
      /\ \A j \in DOMAIN word : IsSegment(word[j])
  BY LineTypes
<1>2. Reads(run[0], FALSE, "none", <<>>, FALSE, <<>>)
  <2>1. run[0].s = NoWords /\ run[0].k = NoControl
    BY DEF Scans
  <2>2. Calm(NoControl, "none")
    BY DEF Calm, NoControl, ControlType, Clear, ControlQuote
  <2>3. NoWords \in StaticType
    <3>1. 0 \in 0..Len(txt)
      OBVIOUS
    <3> QED
      BY <2>1, <3>1, ScansType
  <2>4. Spells(NoWords, "none", <<>>, FALSE, <<>>)
    BY <2>3 DEF Spells, NoWords
  <2> QED
    BY <2>1, <2>2, <2>4 DEF Reads
<1> HIDE DEF word
<1>3. Reads(run[0 + Len(RenderWord(word))], FALSE, "none", Spell(word), TRUE, <<>>)
  BY <1>1, <1>2, WordRead DEF word
<1>4. 0 + Len(RenderWord(word)) = Len(RenderWord(word))
  <2>1. RenderWord(word) \in Seq(Characters)
    BY Zenon, <1>1, RenderWordType
  <2> QED
    BY <2>1
<1>5. Known(written, 1 - 1) = <<>>
  BY DEF Known
<1>6. \A i \in 1..1 : i = 1
  OBVIOUS
<1>7. ~Stops(written[1].before) /\ ~Operates(written[1].before)
  BY <1>1 DEF Stops, Operates
<1> QED
  BY <1>3, <1>4, <1>5, <1>6, <1>7 DEF LineRead, word

\* Each other word.
LEMMA NextRead ==
  ASSUME NEW txt \in Seq(Characters), NEW run, Scans(run, txt), NEW written, IsLine(written),
         NEW k \in Nat, k # 0, k + 1 <= Len(written), NEW a \in Nat, NEW e \in Nat,
         WordStands(txt, a, e, written[k + 1].before, RenderWord(written[k + 1].word)),
         LineRead(written, run[a], k)
  PROVE  LineRead(written, run[e], k + 1)
<1> DEFINE m == k + 1
           before == written[m].before
           word == written[m].word
           now == Spell(written[k].word)
           more == Known(written, k - 1)
           stopped == \E i \in 1..k : Stops(written[i].before)
           found == \E i \in 1..k : Operates(written[i].before)
<1>1. /\ Len(written) \in Nat /\ m \in 1..Len(written) /\ k \in 1..Len(written) /\ m # 1
      /\ \A i \in 1..m : i = m \/ i \in 1..k
      /\ 1..k \subseteq 1..m /\ m \in 1..m /\ k = m - 1
  <2>1. Len(written) \in Nat
    BY LineTypes
  <2> QED
    BY <2>1
<1>2. /\ before \in Seq(Characters) /\ word \in Seq(Segment) /\ word # <<>>
      /\ \A j \in DOMAIN word : IsSegment(word[j])
      /\ Parts(before)
  BY <1>1, LineTypes
<1>3. /\ ~stopped => Reads(run[a], FALSE, "none", now, TRUE, more)
      /\ stopped /\ ~found => Reads(run[a], TRUE, "none", <<>>, TRUE, <<>>)
      /\ found => ~Clear(run[a].k)
      /\ \A i \in 1..k :
           Stops(written[i].before) /\ (\A j \in 1..i - 1 : ~Stops(written[j].before))
             => IF written[i].before = Comment
                  THEN Gives(run[a].s, Known(written, i - 1))
                  ELSE run[a].s.verdict = "unsafe"
  BY DEF LineRead
<1>4. Append(more, now) = Known(written, k)
  BY <1>1, KnownAppend
<1>5. WordStands(txt, a, e, before, RenderWord(word))
  OBVIOUS
<1>6. found => stopped
  BY DEF Operates, Stops
<1>7. /\ (\A i \in 1..m : ~Stops(written[i].before)) <=> ~stopped /\ ~Stops(before)
      /\ (\A i \in 1..m : ~Operates(written[i].before)) <=> ~found /\ ~Operates(before)
  BY <1>1
<1> HIDE DEF m, before, word, now, more
<1>8. /\ run[a].s.verdict # "reading" => run[e].s = run[a].s
      /\ ~Clear(run[a].k) => ~Clear(run[e].k)
  <2>1. RenderWord(word) \in Seq(Characters)
    BY Zenon, <1>2, RenderWordType
  <2>2. a <= e /\ e <= Len(txt)
    BY Zenon, <1>2, <1>5, <2>1, WordEnds
  <2> QED
    BY <2>2, EndsKept
<1>9. /\ before = <<Blank>> \/ before = Comment \/ BeginsOperator(before)
      /\ before = <<Blank>> => ~Stops(before) /\ ~Operates(before)
      /\ before = Comment => Stops(before) /\ ~Operates(before)
      /\ BeginsOperator(before) => Stops(before) /\ Operates(before) /\ before # Comment
  BY <1>2, Partings DEF Parts, Stops, Operates
\* What its separator makes of the word.
<1>10. ASSUME NEW mute \in BOOLEAN, NEW current, NEW words, Reads(run[a], mute, "none", current, TRUE, words)
       PROVE  /\ before = <<Blank>> => Reads(run[e], mute, "none", Spell(word), TRUE, Append(words, current))
              /\ before = Comment
                   => /\ Reads(run[e], TRUE, "none", <<>>, TRUE, <<>>)
                      /\ run[a].s.verdict = "reading" => Gives(run[e].s, Append(words, current))
              /\ BeginsOperator(before)
                   => ~Clear(run[e].k) /\ (run[a].s.verdict = "reading" => run[e].s.verdict = "unsafe")
  <2>1. CASE before = <<Blank>>
    <3>1. WordStands(txt, a, e, <<Blank>>, RenderWord(word))
      BY <1>5, <2>1
    <3>2. Reads(run[e], mute, "none", Spell(word), TRUE, Append(words, current))
      BY <1>2, <1>10, <3>1, BlankPartRead
    <3>3. before # Comment /\ ~BeginsOperator(before)
      BY <2>1, Partings
    <3> QED
      BY <3>2, <3>3
  <2>2. CASE before = Comment
    <3>1. WordStands(txt, a, e, Comment, RenderWord(word))
      BY <1>5, <2>2
    <3>2. /\ Reads(run[e], TRUE, "none", <<>>, TRUE, <<>>)
          /\ run[a].s.verdict = "reading" => Gives(run[e].s, Append(words, current))
      BY <1>2, <1>10, <3>1, CommentPartRead
    <3>3. before # <<Blank>> /\ ~BeginsOperator(before)
      BY <2>2, Partings
    <3> QED
      BY <3>2, <3>3
  <2>3. ASSUME BeginsOperator(before)
        PROVE  ~Clear(run[e].k) /\ (run[a].s.verdict = "reading" => run[e].s.verdict = "unsafe")
    <3>1. RenderWord(word) \in Seq(Characters)
      BY Zenon, <1>2, RenderWordType
    <3> QED
      BY <1>2, <1>5, <1>10, <2>3, <3>1, OperatorPartRead
  <2> QED
    BY <2>1, <2>2, <2>3
\* Nothing has ended the words yet.
<1>11. ASSUME ~stopped
       PROVE  /\ before = <<Blank>> => Reads(run[e], FALSE, "none", Spell(word), TRUE, Known(written, k))
              /\ before = Comment
                   => Reads(run[e], TRUE, "none", <<>>, TRUE, <<>>) /\ Gives(run[e].s, Known(written, k))
              /\ BeginsOperator(before) => ~Clear(run[e].k) /\ run[e].s.verdict = "unsafe"
  <2>1. Reads(run[a], FALSE, "none", now, TRUE, more)
    BY <1>3, <1>11
  <2>2. run[a].s.verdict = "reading"
    BY <2>1 DEF Reads, Spells
  <2> QED
    BY <1>4, <1>10, <2>1, <2>2
\* A comment has.
<1>12. ASSUME stopped, ~found
       PROVE  /\ ~BeginsOperator(before) => Reads(run[e], TRUE, "none", <<>>, TRUE, <<>>)
              /\ BeginsOperator(before) => ~Clear(run[e].k)
  <2>1. Reads(run[a], TRUE, "none", <<>>, TRUE, <<>>)
    BY <1>3, <1>12
  <2>2. Reads(run[e], TRUE, "none", Spell(word), TRUE, Append(<<>>, <<>>)) => Reads(run[e], TRUE, "none", <<>>, TRUE, <<>>)
    BY DEF Reads
  <2> QED
    BY <1>9, <1>10, <2>1, <2>2
<1> HIDE DEF stopped, found
<1>13. (\A i \in 1..m : ~Stops(written[i].before))
         => Reads(run[e], FALSE, "none", Spell(word), TRUE, Known(written, m - 1))
  BY <1>1, <1>7, <1>9, <1>11
<1>14. (\E i \in 1..m : Stops(written[i].before)) /\ (\A i \in 1..m : ~Operates(written[i].before))
         => Reads(run[e], TRUE, "none", <<>>, TRUE, <<>>)
  BY <1>7, <1>9, <1>11, <1>12
<1>15. (\E i \in 1..m : Operates(written[i].before)) => ~Clear(run[e].k)
  BY <1>3, <1>7, <1>8, <1>9, <1>11, <1>12
<1>16. ASSUME NEW i \in 1..m, Stops(written[i].before), \A j \in 1..i - 1 : ~Stops(written[j].before)
       PROVE  IF written[i].before = Comment
                THEN Gives(run[e].s, Known(written, i - 1))
                ELSE run[e].s.verdict = "unsafe"
  <2>1. CASE i = m
    <3>1. ~stopped /\ Stops(before)
      BY <1>1, <1>16, <2>1 DEF stopped, before
    <3>3. written[i].before = before /\ k = i - 1
      BY <1>1, <2>1 DEF before
    <3> QED
      BY <1>9, <1>11, <3>1, <3>3
  <2>2. CASE i \in 1..k
    <3>1. IF written[i].before = Comment
            THEN Gives(run[a].s, Known(written, i - 1))
            ELSE run[a].s.verdict = "unsafe"
      BY <1>3, <1>16, <2>2
    <3> QED
      BY <1>8, <3>1 DEF Gives
  <2> QED
    BY <1>1, <2>1, <2>2
<1> QED
  BY <1>13, <1>14, <1>15, <1>16 DEF LineRead, word, m

\* The whole line.
LEMMA WholeRead ==
  ASSUME NEW written, IsLine(written), Len(written) # 0, NEW run, Scans(run, RenderLine(written))
  PROVE  LineRead(written, run[Len(RenderLine(written))], Len(written))
<1> DEFINE txt == RenderLine(written)
           N == Len(written)
           before(k) == written[k].before
           word(k) == RenderWord(written[k].word)
<1>1. /\ N \in Nat /\ N # 0 /\ txt \in Seq(Characters)
      /\ Rendered(written) \in Seq(Seq(Characters)) /\ Len(Rendered(written)) = N
      /\ txt = FlattenSeq(Rendered(written))
      /\ \A k \in 1..N : before(k) \in Seq(Characters) /\ Rendered(written)[k] = before(k) \o word(k)
  <2>1. \A k \in 1..N : Rendered(written)[k] = before(k) \o word(k)
    BY LineTypes DEF Rendered
  <2> QED
    BY <2>1, LineTypes
<1>2. \A k \in 1..N : word(k) \in Seq(Characters)
  <2>1. \A k \in 1..N : written[k].word \in Seq(Segment)
    BY LineTypes
  <2>2. \A w \in Seq(Segment) : RenderWord(w) \in Seq(Characters)
    BY Zenon, RenderWordType
  <2> QED
    BY <2>1, <2>2
<1> HIDE DEF txt, N, before, word
<1>3. PICK off : Splits(off, txt, 0, Rendered(written))
  <2>1. Stands(txt, 0, FlattenSeq(Rendered(written)))
    <3>1. Len(txt) \in Nat
      BY <1>1
    <3>2. Stands(txt, 0, txt)
      BY <3>1 DEF Stands
    <3> QED
      BY <1>1, <3>2
  <2> QED
    BY <1>1, <2>1, FlattenSplits
<1>4. /\ off[0] = 0 /\ off[N] = 0 + Len(txt) /\ \A k \in 0..N : off[k] \in Nat
      /\ \A k \in 1..N : /\ off[k] = off[k - 1] + Len(Rendered(written)[k])
                         /\ Stands(txt, off[k - 1], Rendered(written)[k])
  BY <1>1, <1>3 DEF Splits
<1>5. ASSUME NEW k \in 1..N
      PROVE  /\ Stands(txt, off[k - 1], before(k)) /\ Stands(txt, off[k - 1] + Len(before(k)), word(k))
             /\ off[k] = off[k - 1] + Len(before(k)) + Len(word(k)) /\ off[k - 1] \in Nat /\ off[k] \in Nat
  <2> DEFINE x == before(k)
             y == word(k)
             a == off[k - 1]
  <2>1. x \in Seq(Characters) /\ y \in Seq(Characters) /\ a \in Nat /\ off[k] \in Nat
    <3>1. k - 1 \in 0..N /\ k \in 0..N
      BY <1>1
    <3> QED
      BY <1>1, <1>2, <1>4, <3>1
  <2>2. off[k] = a + Len(x \o y) /\ Stands(txt, a, x \o y)
    BY <1>1, <1>4
  <2> HIDE DEF x, y, a
  <2>3. Stands(txt, a, x) /\ Stands(txt, a + Len(x), y)
    BY Zenon, <1>1, <2>1, <2>2, StandsApart
  <2>4. Len(x \o y) = Len(x) + Len(y) /\ Len(x) \in Nat /\ Len(y) \in Nat
    BY <2>1
  <2>5. off[k] = a + Len(x) + Len(y)
    BY <2>1, <2>2, <2>4
  <2> QED
    BY <2>1, <2>3, <2>5 DEF x, y, a
<1>6. Scans(run, txt)
  BY DEF txt
<1> DEFINE P == {j \in Nat : LineRead(written, run[off[j + 1]], j + 1)}
<1>7. 0 \in P
  <2>1. 1 \in 1..N /\ 1 - 1 = 0
    BY <1>1
  <2>2. before(1) = <<>>
    BY <1>1, LineTypes DEF before, N
  <2>3. Len(<<>>) = 0 /\ Len(word(1)) \in Nat
    BY <1>2, <2>1
  <2>4. Stands(txt, 0, word(1)) /\ off[1] = Len(word(1))
    <3>1. Stands(txt, 0 + Len(<<>>), word(1)) /\ off[1] = 0 + Len(<<>>) + Len(word(1))
      BY <1>4, <1>5, <2>1, <2>2
    <3> QED
      BY <2>3, <3>1
  <2>5. LineRead(written, run[Len(RenderWord(written[1].word))], 1)
    <3>1. Stands(txt, 0, RenderWord(written[1].word)) /\ Len(written) # 0
      BY <2>4 DEF word
    <3> QED
      BY Zenon, <1>1, <1>6, <3>1, FirstRead
  <2>6. LineRead(written, run[off[1]], 1)
    BY Zenon, <2>4, <2>5 DEF word
  <2>7. 0 + 1 = 1
    OBVIOUS
  <2> QED
    BY Zenon, <2>6, <2>7
<1>8. ASSUME NEW j \in 0..(N - 1) - 1, j \in P PROVE j + 1 \in P
  <2> DEFINE k == j + 1
             m == k + 1
  <2>1. /\ k \in Nat /\ k # 0 /\ m \in 1..N /\ m = k + 1 /\ m <= Len(written) /\ m - 1 = k
    BY <1>1 DEF N
  <2>2. LineRead(written, run[off[k]], k)
    BY <1>8
  <2> HIDE DEF k, m, P
  <2>3. /\ Stands(txt, off[k], before(m)) /\ Stands(txt, off[k] + Len(before(m)), word(m))
        /\ off[m] = off[k] + Len(before(m)) + Len(word(m)) /\ off[k] \in Nat /\ off[m] \in Nat
    BY <1>5, <2>1
  <2> DEFINE a == off[k]
             e == off[m]
  <2>4. /\ WordStands(txt, a, e, written[k + 1].before, RenderWord(written[k + 1].word))
        /\ a \in Nat /\ e \in Nat /\ LineRead(written, run[a], k) /\ k + 1 <= Len(written)
    BY <2>1, <2>2, <2>3 DEF before, word, WordStands
  <2> HIDE DEF a, e
  <2>5. LineRead(written, run[e], k + 1)
    BY <1>1, <1>6, <2>1, <2>4, NextRead
  <2> QED
    BY <2>1, <2>5 DEF P, k, m, e
<1>9. N - 1 \in P
  <2> HIDE DEF P
  <2>1. \A j \in 0..(N - 1) - 1 : j \in P => j + 1 \in P
    BY <1>8
  <2>2. N - 1 \in Nat
    BY <1>1
  <2>3. 0..N - 1 \subseteq P
    BY <1>7, <2>1, <2>2, BoundedInduction
  <2> QED
    BY <2>2, <2>3
<1>10. LineRead(written, run[off[N]], N)
  <2>1. N - 1 + 1 = N
    BY <1>1
  <2> QED
    BY <1>9, <2>1
<1>11. off[N] = Len(txt)
  BY <1>1, <1>4
<1> QED
  BY <1>10, <1>11 DEF txt, N

-----------------------------------------------------------------------------
\* The text is one of the scans' until it is presented, and the empty one
\* after.
LEMMA ReadingInit == Init => TextInv
<1> SUFFICES ASSUME Init PROVE TextInv
  OBVIOUS
<1>1. text \in Seq(Characters)
  BY ShellLineAssumption, LineTypes DEF Init
<1> QED
  BY <1>1, TextInit DEF Init

\* A step of a scan, the presentation of what was found, or no change.
LEMMA ReadingNext == TextInv /\ [Next]_vars => TextInv'
<1> SUFFICES ASSUME TextInv, [Next]_vars PROVE TextInv'
  OBVIOUS
<1>1. CASE ReadNext
  BY <1>1, TextNext DEF ReadNext
<1>2. CASE Present
  <2>1. text' \in Seq(Characters) /\ StartReading'
    BY <1>2 DEF Present, StartReading
  <2>2. (text \in Seq(Characters) /\ StartReading => TextInv)'
    BY TextInit, PTL
  <2> QED
    BY <2>1, <2>2
<1>3. CASE Decide \/ UNCHANGED vars
  <2>1. UNCHANGED textVars
    BY <1>3 DEF Decide, vars
  <2> QED
    BY <2>1, TextNext
<1> QED
  BY <1>1, <1>2, <1>3 DEF Next, Finished

-----------------------------------------------------------------------------
(* The tokens and the fields of a text are sequences of words.             *)

ShlexType ==
  [quote : {"none", "single", "double"}, escape : BOOLEAN, started : BOOLEAN,
   current : Seq(Characters), words : Seq(Seq(Characters))]

FieldType == [current : Seq(Characters), fields : Seq(Seq(Characters))]

\* One character of either.
LEMMA AppendTypes ==
  ASSUME NEW S, NEW words \in Seq(S), NEW word \in S
  PROVE  Append(words, word) \in Seq(S)
OBVIOUS

\* The states of shlex.split.
LEMMA ShlexTypes ==
  /\ NoTokens \in ShlexType
  /\ \A s \in ShlexType, c \in Characters : AfterShlex(s, c) \in ShlexType
  /\ \A s \in ShlexType : WordsOf(s) \in Seq(Seq(Characters))
<1>1. NoTokens \in ShlexType
  <2> DEFINE none == <<>>
  <2>1. none \in Seq(Characters) /\ none \in Seq(Seq(Characters))
    OBVIOUS
  <2> HIDE DEF none
  <2>2. [quote |-> "none", escape |-> FALSE, started |-> FALSE, current |-> none, words |-> none]
          \in ShlexType
    BY <2>1 DEF ShlexType
  <2> QED
    BY <2>2 DEF NoTokens, none
<1>2. ASSUME NEW s \in ShlexType PROVE WordsOf(s) \in Seq(Seq(Characters))
  BY AppendTypes DEF WordsOf, ShlexType
<1>3. ASSUME NEW s \in ShlexType, NEW c \in Characters PROVE AfterShlex(s, c) \in ShlexType
  <2>1. ASSUME NEW kept \in Seq(Characters)
        PROVE  [s EXCEPT !.escape = FALSE, !.started = TRUE, !.current = @ \o kept] \in ShlexType
    <3> DEFINE more == s.current \o kept
    <3>1. more \in Seq(Characters)
      BY DEF ShlexType
    <3> HIDE DEF more
    <3>2. [s EXCEPT !.escape = FALSE, !.started = TRUE, !.current = more] \in ShlexType
      BY <3>1 DEF ShlexType
    <3> QED
      BY <3>2 DEF more
  <2>2. <<Backslash, c>> \in Seq(Characters) /\ <<c>> \in Seq(Characters)
    BY DEF Characters, Specials
  <2>3. Take(s, c) \in ShlexType
    <3> DEFINE taken == Append(s.current, c)
    <3>1. taken \in Seq(Characters)
      BY AppendTypes DEF ShlexType
    <3> HIDE DEF taken
    <3>2. [s EXCEPT !.current = taken, !.started = TRUE] \in ShlexType
      BY <3>1 DEF ShlexType
    <3> QED
      BY <3>2 DEF Take, taken
  <2>4. [s EXCEPT !.escape = TRUE] \in ShlexType /\ Leave(s) \in ShlexType
        /\ Enter(s, "single") \in ShlexType /\ Enter(s, "double") \in ShlexType
    BY DEF Leave, Enter, ShlexType
  <2>5. [s EXCEPT !.words = WordsOf(s), !.current = <<>>, !.started = FALSE] \in ShlexType
    <3> DEFINE ws == WordsOf(s)
               none == <<>>
    <3>1. ws \in Seq(Seq(Characters)) /\ none \in Seq(Characters)
      BY <1>2
    <3> HIDE DEF ws, none
    <3>2. [s EXCEPT !.words = ws, !.current = none, !.started = FALSE] \in ShlexType
      BY <3>1 DEF ShlexType
    <3> QED
      BY <3>2 DEF ws, none
  <2>6. s.quote \in {"none", "single", "double"}
    BY DEF ShlexType
  <2> QED
    BY <2>1, <2>2, <2>3, <2>4, <2>5, <2>6 DEF AfterShlex
<1> QED
  BY <1>1, <1>2, <1>3

\* The states of str.split.
LEMMA FieldTypes ==
  /\ NoFields \in FieldType
  /\ \A s \in FieldType, c \in Characters : AfterField(s, c) \in FieldType
  /\ \A s \in FieldType : EndField(s) \in Seq(Seq(Characters))
<1> DEFINE none == <<>>
<1>1. none \in Seq(Characters) /\ none \in Seq(Seq(Characters))
  OBVIOUS
<1>2. NoFields \in FieldType
  <2> HIDE DEF none
  <2>1. [current |-> none, fields |-> none] \in FieldType
    BY <1>1 DEF FieldType
  <2> QED
    BY <2>1 DEF NoFields, none
<1>3. ASSUME NEW s \in FieldType PROVE EndField(s) \in Seq(Seq(Characters))
  BY AppendTypes DEF EndField, FieldType
<1>4. ASSUME NEW s \in FieldType, NEW c \in Characters PROVE AfterField(s, c) \in FieldType
  <2> DEFINE ended == EndField(s)
             taken == Append(s.current, c)
  <2>1. ended \in Seq(Seq(Characters)) /\ taken \in Seq(Characters)
    BY <1>3, AppendTypes DEF FieldType
  <2> HIDE DEF none, ended, taken
  <2>2. [current |-> none, fields |-> ended] \in FieldType /\ [s EXCEPT !.current = taken] \in FieldType
    BY <1>1, <2>1 DEF FieldType
  <2> QED
    BY <2>2 DEF AfterField, none, ended, taken
<1> QED
  BY <1>2, <1>3, <1>4

\* shlex.split runs over the text.
LEMMA ShlexRun ==
  ASSUME NEW chars \in Seq(Characters)
  PROVE  \E run : /\ run[0] = NoTokens
                  /\ \A k \in 1..Len(chars) : run[k] = AfterShlex(run[k - 1], chars[k])
                  /\ FoldLeft(AfterShlex, NoTokens, chars) = run[Len(chars)]
<1> DEFINE N == Len(chars)
           D == DOMAIN chars
           T == ShlexType
           step == [x \in T \X (1..N) |-> AfterShlex(x[1], chars[x[2]])]
<1>1. N \in Nat /\ D = 1..N /\ \A k \in 1..N : chars[k] \in Characters
  OBVIOUS
<1>2. step \in [T \X (1..N) -> T]
  <2>1. ASSUME NEW x \in T \X (1..N) PROVE AfterShlex(x[1], chars[x[2]]) \in T
    <3> HIDE DEF T, N
    <3>1. x[1] \in T /\ chars[x[2]] \in Characters
      BY <1>1
    <3> QED
      BY <3>1, ShlexTypes DEF T
  <2> HIDE DEF T
  <2> QED
    BY <2>1
<1>3. PICK iter : iter \in [SUBSET (1..N) -> T] /\ Iterates(iter, NoTokens, N, step)
  <2>1. NoTokens \in T
    BY ShlexTypes
  <2> HIDE DEF T, N, step
  <2> QED
    BY <1>1, <1>2, <2>1, FoldExists
<1> DEFINE IsIter(it) ==
             it = [s \in SUBSET D |->
                     IF s = {} THEN NoTokens ELSE AfterShlex(it[s \ {Max(s)}], chars[Max(s)])]
           chosen == CHOOSE it : IsIter(it)
<1>4. IsIter(iter)
  <2>1. ASSUME NEW s \in SUBSET (1..N)
        PROVE  iter[s] = IF s = {} THEN NoTokens ELSE AfterShlex(iter[s \ {Max(s)}], chars[Max(s)])
    <3>1. iter[s] = IF s = {} THEN NoTokens ELSE step[<<iter[s \ {Max(s)}], Max(s)>>]
      <4> HIDE DEF T, N, step
      <4> QED
        BY <1>3 DEF Iterates
    <3>2. CASE s = {}
      BY <3>1, <3>2
    <3>3. CASE s # {}
      <4>1. Max(s) \in 1..N
        BY <1>1, <3>3, MaxInPositions
      <4>2. s \ {Max(s)} \in SUBSET (1..N)
        OBVIOUS
      <4> HIDE DEF T
      <4>3. iter[s \ {Max(s)}] \in T
        BY <1>3, <4>2
      <4> HIDE DEF N
      <4>4. step[<<iter[s \ {Max(s)}], Max(s)>>] = AfterShlex(iter[s \ {Max(s)}], chars[Max(s)])
        BY <4>1, <4>3
      <4> QED
        BY <3>1, <3>3, <4>4
    <3> QED
      BY <3>2, <3>3
  <2> HIDE DEF N, T
  <2> QED
    BY <1>1, <1>3, <2>1
<1>5. IsIter(chosen)
  BY Zenon, <1>4
<1>6. FoldLeft(AfterShlex, NoTokens, chars) = chosen[D]
  BY Zenon DEF FoldLeft, MapThenFoldSet
<1> DEFINE run == [k \in 0..N |-> chosen[1..k]]
<1>7. run[0] = NoTokens
  <2>1. (1..0) = {} /\ (1..0) \in SUBSET D /\ 0 \in 0..N
    BY <1>1
  <2> HIDE DEF chosen
  <2> QED
    BY <1>5, <2>1
<1>8. ASSUME NEW k \in 1..N PROVE run[k] = AfterShlex(run[k - 1], chars[k])
  <2>1. 1..k \in SUBSET D /\ k \in 0..N /\ k - 1 \in 0..N /\ 1..k # {}
    <3> HIDE DEF N, D, run
    <3>1. k \in 1..k /\ k \in 0..N /\ k - 1 \in 0..N
      BY <1>1
    <3>2. 1..k \subseteq 1..N
      BY <1>1
    <3> QED
      BY Zenon, <1>1, <3>1, <3>2
  <2>2. Max(1..k) = k /\ (1..k) \ {k} = 1..k - 1
    <3>1. k \in Nat /\ k # 0
      BY <1>1
    <3> QED
      BY <3>1, FirstPositions
  <2> HIDE DEF chosen
  <2> QED
    BY <1>5, <2>1, <2>2
<1>9. FoldLeft(AfterShlex, NoTokens, chars) = run[N]
  BY <1>1, <1>6
<1> QED
  BY <1>7, <1>8, <1>9

\* So does str.split.
LEMMA FieldsRun ==
  ASSUME NEW chars \in Seq(Characters)
  PROVE  \E run : /\ run[0] = NoFields
                  /\ \A k \in 1..Len(chars) : run[k] = AfterField(run[k - 1], chars[k])
                  /\ FoldLeft(AfterField, NoFields, chars) = run[Len(chars)]
<1> DEFINE N == Len(chars)
           D == DOMAIN chars
           T == FieldType
           step == [x \in T \X (1..N) |-> AfterField(x[1], chars[x[2]])]
<1>1. N \in Nat /\ D = 1..N /\ \A k \in 1..N : chars[k] \in Characters
  OBVIOUS
<1>2. step \in [T \X (1..N) -> T]
  <2>1. ASSUME NEW x \in T \X (1..N) PROVE AfterField(x[1], chars[x[2]]) \in T
    <3> HIDE DEF T, N
    <3>1. x[1] \in T /\ chars[x[2]] \in Characters
      BY <1>1
    <3> QED
      BY <3>1, FieldTypes DEF T
  <2> HIDE DEF T
  <2> QED
    BY <2>1
<1>3. PICK iter : iter \in [SUBSET (1..N) -> T] /\ Iterates(iter, NoFields, N, step)
  <2>1. NoFields \in T
    BY FieldTypes
  <2> HIDE DEF T, N, step
  <2> QED
    BY <1>1, <1>2, <2>1, FoldExists
<1> DEFINE IsIter(it) ==
             it = [s \in SUBSET D |->
                     IF s = {} THEN NoFields ELSE AfterField(it[s \ {Max(s)}], chars[Max(s)])]
           chosen == CHOOSE it : IsIter(it)
<1>4. IsIter(iter)
  <2>1. ASSUME NEW s \in SUBSET (1..N)
        PROVE  iter[s] = IF s = {} THEN NoFields ELSE AfterField(iter[s \ {Max(s)}], chars[Max(s)])
    <3>1. iter[s] = IF s = {} THEN NoFields ELSE step[<<iter[s \ {Max(s)}], Max(s)>>]
      <4> HIDE DEF T, N, step
      <4> QED
        BY <1>3 DEF Iterates
    <3>2. CASE s = {}
      BY <3>1, <3>2
    <3>3. CASE s # {}
      <4>1. Max(s) \in 1..N
        BY <1>1, <3>3, MaxInPositions
      <4>2. s \ {Max(s)} \in SUBSET (1..N)
        OBVIOUS
      <4> HIDE DEF T
      <4>3. iter[s \ {Max(s)}] \in T
        BY <1>3, <4>2
      <4> HIDE DEF N
      <4>4. step[<<iter[s \ {Max(s)}], Max(s)>>] = AfterField(iter[s \ {Max(s)}], chars[Max(s)])
        BY <4>1, <4>3
      <4> QED
        BY <3>1, <3>3, <4>4
    <3> QED
      BY <3>2, <3>3
  <2> HIDE DEF N, T
  <2> QED
    BY <1>1, <1>3, <2>1
<1>5. IsIter(chosen)
  BY Zenon, <1>4
<1>6. FoldLeft(AfterField, NoFields, chars) = chosen[D]
  BY Zenon DEF FoldLeft, MapThenFoldSet
<1> DEFINE run == [k \in 0..N |-> chosen[1..k]]
<1>7. run[0] = NoFields
  <2>1. (1..0) = {} /\ (1..0) \in SUBSET D /\ 0 \in 0..N
    BY <1>1
  <2> HIDE DEF chosen
  <2> QED
    BY <1>5, <2>1
<1>8. ASSUME NEW k \in 1..N PROVE run[k] = AfterField(run[k - 1], chars[k])
  <2>1. 1..k \in SUBSET D /\ k \in 0..N /\ k - 1 \in 0..N /\ 1..k # {}
    <3> HIDE DEF N, D, run
    <3>1. k \in 1..k /\ k \in 0..N /\ k - 1 \in 0..N
      BY <1>1
    <3>2. 1..k \subseteq 1..N
      BY <1>1
    <3> QED
      BY Zenon, <1>1, <3>1, <3>2
  <2>2. Max(1..k) = k /\ (1..k) \ {k} = 1..k - 1
    <3>1. k \in Nat /\ k # 0
      BY <1>1
    <3> QED
      BY <3>1, FirstPositions
  <2> HIDE DEF chosen
  <2> QED
    BY <1>5, <2>1, <2>2
<1>9. FoldLeft(AfterField, NoFields, chars) = run[N]
  BY <1>1, <1>6
<1> QED
  BY <1>7, <1>8, <1>9

\* Fields are words.
LEMMA FieldsType ==
  ASSUME NEW chars \in Seq(Characters) PROVE FieldsOf(chars) \in Seq(Seq(Characters))
<1> DEFINE N == Len(chars)
           T == FieldType
<1>1. N \in Nat /\ \A k \in 1..N : chars[k] \in Characters
  OBVIOUS
<1>2. PICK run : /\ run[0] = NoFields
                 /\ \A k \in 1..Len(chars) : run[k] = AfterField(run[k - 1], chars[k])
                 /\ FoldLeft(AfterField, NoFields, chars) = run[Len(chars)]
  BY FieldsRun
<1>3. \A k \in 1..N : run[k - 1] \in T => run[k] \in T
  BY <1>1, <1>2, FieldTypes
<1>4. run[0] \in T
  BY <1>2, FieldTypes
<1>5. run[N] \in T
  <2> HIDE DEF N, T
  <2>1. \A k \in 0..N : run[k] \in T
    BY <1>1, <1>3, <1>4, RunStays
  <2> QED
    BY <1>1, <2>1
<1> QED
  BY <1>2, <1>5, FieldTypes DEF FieldsOf

\* The state after the whole text.
LEMMA TextShlexType ==
  ASSUME NEW chars \in Seq(Characters)
  PROVE  FoldLeft(AfterShlex, NoTokens, chars) \in ShlexType
<1> DEFINE N == Len(chars)
           T == ShlexType
<1>1. N \in Nat /\ \A k \in 1..N : chars[k] \in Characters
  OBVIOUS
<1>2. PICK run : /\ run[0] = NoTokens
                 /\ \A k \in 1..Len(chars) : run[k] = AfterShlex(run[k - 1], chars[k])
                 /\ FoldLeft(AfterShlex, NoTokens, chars) = run[Len(chars)]
  BY ShlexRun
<1>3. \A k \in 1..N : run[k - 1] \in T => run[k] \in T
  BY <1>1, <1>2, ShlexTypes
<1>4. run[0] \in T
  BY <1>2, ShlexTypes
<1>5. run[N] \in T
  <2> HIDE DEF N, T
  <2>1. \A k \in 0..N : run[k] \in T
    BY <1>1, <1>3, <1>4, RunStays
  <2> QED
    BY <1>1, <2>1
<1> QED
  BY <1>2, <1>5

\* The fields joined are a text.
LEMMA NormalizedType ==
  ASSUME NEW chars \in Seq(Characters) PROVE Normalized(chars) \in Seq(Characters)
<1> DEFINE fields == FieldsOf(chars)
           spaced == [i \in 1..Len(fields) |-> IF i = 1 THEN fields[i] ELSE <<Blank>> \o fields[i]]
<1>1. fields \in Seq(Seq(Characters))
  BY FieldsType
<1> HIDE DEF fields
<1>2. ASSUME NEW i \in 1..Len(fields)
      PROVE  (IF i = 1 THEN fields[i] ELSE <<Blank>> \o fields[i]) \in Seq(Characters)
  <2>1. <<Blank>> \in Seq(Characters) /\ fields[i] \in Seq(Characters)
    BY <1>1 DEF Characters, Specials
  <2> QED
    BY <2>1
<1> DEFINE T == Seq(Characters)
<1>3. spaced \in Seq(T)
  <2> HIDE DEF T
  <2>1. Len(fields) \in Nat /\ spaced \in [1..Len(fields) -> T]
    BY <1>1, <1>2 DEF T
  <2> QED
    BY <2>1
<1> HIDE DEF spaced
<1>4. FlattenSeq(spaced) \in Seq(Characters)
  BY <1>3, FlattenType
<1> QED
  BY <1>4 DEF Normalized, fields, spaced

\* Tokens are words.
LEMMA TokensType ==
  ASSUME NEW chars \in Seq(Characters) PROVE TokensOf(chars) \in Seq(Seq(Characters))
BY FieldsType, NormalizedType, TextShlexType, ShlexTypes DEF TokensOf

\* Joining the characters of words keeps their number.
LEMMA SpelledType ==
  ASSUME NEW ws \in Seq(Seq(Characters)) PROVE Spelled(ws) \in Seq(ToSet(Spelled(ws)))
<1> DEFINE Join(word) == FoldLeft(LAMBDA w, c : w \o c, "", word)
           spelled == [i \in DOMAIN ws |-> Join(ws[i])]
<1> HIDE DEF Join
<1>1. DOMAIN ws = 1..Len(ws) /\ Len(ws) \in Nat
  OBVIOUS
<1>2. DOMAIN spelled = 1..Len(ws) /\ \A i \in 1..Len(ws) : spelled[i] \in ToSet(spelled)
  BY <1>1 DEF ToSet
<1> HIDE DEF spelled
<1>3. spelled \in Seq(ToSet(spelled))
  <2>1. spelled = [i \in 1..Len(ws) |-> spelled[i]]
    BY <1>1, <1>2 DEF spelled
  <2> QED
    BY <1>1, <1>2, <2>1
<1>4. Spelled(ws) = spelled
  BY DEF Spelled, spelled, Join
<1> QED
  BY <1>3, <1>4

\* What is presented has words and tokens.
LEMMA PresentedIsCommand ==
  ASSUME static \in StaticType, text \in Seq(Characters)
  PROVE  IsCommand(CommandOf(text, control, static))
<1>1. WordsOf(static) \in Seq(Seq(Characters)) /\ TokensOf(text) \in Seq(Seq(Characters))
  BY TokensType DEF WordsOf, StaticType
<1>2. CommandOf(text, control, static).words = Spelled(WordsOf(static))
      /\ CommandOf(text, control, static).tokens = Spelled(TokensOf(text))
  BY DEF CommandOf
<1> QED
  BY <1>1, <1>2, SpelledType DEF IsCommand

-----------------------------------------------------------------------------
(* shlex.split and the scan for static words read a text abreast.          *)

\* The states in which they have read the same words.
SameWords(s, t) == ~s.skip /\ ~t.escape /\ s.quote = t.quote /\ s.started = t.started
                   /\ s.current = t.current /\ s.words = t.words

\* The scan has taken the character behind a backslash already.
Ahead(s, t, c) ==
  /\ s.skip /\ t.escape
  /\ s.quote = t.quote /\ s.words = t.words
  /\ s.started /\ s.current = Append(t.current, c)
  /\ c # NoCharacter
  /\ s.quote = "double" => c \in {Double, Backslash}

\* It has taken a backslash that shlex will find to stand for itself.
AtBackslash(s, t, c) ==
  /\ ~s.skip /\ t.escape
  /\ s.quote = "double" /\ t.quote = "double" /\ s.words = t.words
  /\ s.started /\ s.current = Append(t.current, Backslash)
  /\ c \notin {Double, Backslash} \cup Expanding \cup Ends

Abreast(s, t, c) == SameWords(s, t) \/ Ahead(s, t, c) \/ AtBackslash(s, t, c)

\* Taking the same character.
LEMMA TakeBoth ==
  ASSUME NEW s \in StaticType, NEW t \in ShlexType, NEW c, SameWords(s, t)
  PROVE  SameWords(Take(s, c), Take(t, c)) /\ SameWords(Leave(s), Leave(t))
<1> DEFINE taken == Append(s.current, c)
<1>1. Take(s, c) = [s EXCEPT !.current = taken, !.started = TRUE]
      /\ Take(t, c) = [t EXCEPT !.current = taken, !.started = TRUE]
  BY DEF Take, SameWords
<1> HIDE DEF taken
<1>2. SameWords(Take(s, c), Take(t, c))
  BY <1>1 DEF SameWords, StaticType, ShlexType
<1>3. SameWords(Leave(s), Leave(t))
  BY DEF SameWords, Leave, StaticType, ShlexType
<1> QED
  BY <1>2, <1>3

\* The second character of an escape.
LEMMA AfterEscape ==
  ASSUME NEW s \in StaticType, NEW t \in ShlexType, NEW c \in Characters, NEW next,
         s.verdict = "reading", AfterStatic(s, c, next).verdict = "reading",
         Ahead(s, t, c) \/ AtBackslash(s, t, c)
  PROVE  SameWords(AfterStatic(s, c, next), AfterShlex(t, c))
<1> DEFINE kept == IF t.quote = "double" /\ c \notin {Double, Backslash} THEN <<Backslash, c>> ELSE <<c>>
           more == t.current \o kept
<1>1. AfterShlex(t, c) = [t EXCEPT !.escape = FALSE, !.started = TRUE, !.current = more]
  BY DEF AfterShlex, Ahead, AtBackslash
<1>t. t.current \in Seq(Characters) /\ Backslash \in Characters
  BY DEF ShlexType, Characters, Specials
<1>2. CASE Ahead(s, t, c)
  <2>1. AfterStatic(s, c, next) = [s EXCEPT !.skip = FALSE]
    BY <1>2 DEF AfterStatic, Ahead
  <2>2. more = Append(t.current, c)
    <3>1. kept = <<c>>
      BY <1>2 DEF Ahead
    <3>2. t.current \o <<c>> = Append(t.current, c)
      BY <1>t
    <3> QED
      BY <3>1, <3>2
  <2> HIDE DEF more
  <2> QED
    BY <1>1, <1>2, <2>1, <2>2 DEF Ahead, SameWords, StaticType, ShlexType
<1>3. CASE AtBackslash(s, t, c)
  <2>1. c \notin {Nul, Newline}
    BY <1>3 DEF AtBackslash, AfterStatic, Unsafe, StaticType
  <2>2. AfterStatic(s, c, next) = InDoubles(s, c, next)
    BY <1>3, <2>1 DEF AtBackslash, AfterStatic
  <2>3. InDoubles(s, c, next) = Take(s, c)
    BY <1>3, <2>2 DEF AtBackslash, InDoubles
  <2>4. more = Append(Append(t.current, Backslash), c)
    <3>1. kept = <<Backslash, c>>
      BY <1>3 DEF AtBackslash
    <3>2. t.current \o <<Backslash, c>> = Append(Append(t.current, Backslash), c)
      BY <1>t
    <3> QED
      BY <3>1, <3>2
  <2> HIDE DEF more
  <2> QED
    BY <1>1, <1>3, <2>2, <2>3, <2>4 DEF AtBackslash, SameWords, Take, StaticType, ShlexType
<1> QED
  BY <1>2, <1>3

\* A character out of any quotes.
LEMMA AbreastUnquoted ==
  ASSUME NEW s \in StaticType, NEW t \in ShlexType, NEW c \in Characters \ Expanding, NEW next,
         s.verdict = "reading", AfterStatic(s, c, next).verdict = "reading",
         SameWords(s, t), s.quote = "none"
  PROVE  Abreast(AfterStatic(s, c, next), AfterShlex(t, c), next)
<1>1. c \notin {Nul, Newline} /\ AfterStatic(s, c, next) = Unquoted(s, c, next)
  BY DEF SameWords, AfterStatic, Unsafe, StaticType
<1>2. Unquoted(s, c, next).verdict = "reading"
  BY <1>1
<1>u. Unsafe(s).verdict = "unsafe" /\ [s EXCEPT !.verdict = "commented"].verdict = "commented"
  BY DEF Unsafe, StaticType
<1>3. c \notin {Glob, Pipe, Amp, Open, Operator} /\ ~(c = Backslash /\ next \in Ends) /\ ~(c = Hash /\ ~s.started)
  BY <1>2, <1>u DEF Unquoted, Expanding, Blank, Hash, Single, Double, Dollar, Backtick, Glob, Backslash,
                    Pipe, Amp, Open, Operator
<1>4. CASE c = Blank
  <2>1. WordsOf(s) = WordsOf(t)
    BY DEF WordsOf, SameWords
  <2>2. Unquoted(s, c, next) = [s EXCEPT !.words = WordsOf(s), !.current = <<>>, !.started = FALSE]
    <3> DEFINE flushed == [s EXCEPT !.words = WordsOf(s), !.current = <<>>, !.started = FALSE]
    <3>1. Unquoted(s, Blank, next) = flushed
      BY Zenon DEF Unquoted, Expanding, Blank, Hash, Single, Double, Dollar, Backtick, Glob, Backslash,
                   Pipe, Amp, Open, Operator
    <3> QED
      BY <1>4, <3>1
  <2>3. AfterShlex(t, c) = [t EXCEPT !.words = WordsOf(t), !.current = <<>>, !.started = FALSE]
    BY <1>4 DEF AfterShlex, SameWords
  <2>4. SameWords(Unquoted(s, c, next), AfterShlex(t, c))
    <3> DEFINE ws == WordsOf(s)
               none == <<>>
    <3> HIDE DEF ws, none
    <3>1. Unquoted(s, c, next) = [s EXCEPT !.words = ws, !.current = none, !.started = FALSE]
          /\ AfterShlex(t, c) = [t EXCEPT !.words = ws, !.current = none, !.started = FALSE]
      BY <2>1, <2>2, <2>3 DEF ws, none
    <3> QED
      BY <3>1 DEF SameWords, StaticType, ShlexType
  <2> QED
    BY <1>1, <2>4 DEF Abreast
<1>5. CASE c \in {Single, Double}
  <2> DEFINE q == IF c = Single THEN "single" ELSE "double"
  <2>1. Unquoted(s, c, next) = Enter(s, q)
    BY <1>5 DEF Unquoted, Expanding, Blank, Hash, Single, Double, Dollar, Backtick, Glob, Backslash,
                Pipe, Amp, Open, Operator
  <2>2. AfterShlex(t, c) = Enter(t, q)
    BY <1>5 DEF AfterShlex, SameWords, Single, Double, Backslash, Blank
  <2> HIDE DEF q
  <2>3. SameWords(Unquoted(s, c, next), AfterShlex(t, c))
    BY <2>1, <2>2 DEF SameWords, Enter, StaticType, ShlexType
  <2> QED
    BY <1>1, <2>3 DEF Abreast
<1>6. CASE c = Backslash
  <2>1. Unquoted(s, c, next) = TakeNext(s, next) /\ next # NoCharacter
    BY <1>3, <1>6 DEF Unquoted, Expanding, Ends, Blank, Hash, Single, Double, Dollar, Backtick, Glob, Backslash,
                      Pipe, Amp, Open, Operator
  <2>2. AfterShlex(t, c) = [t EXCEPT !.escape = TRUE]
    BY <1>6 DEF AfterShlex, SameWords, Single, Double, Backslash, Blank
  <2> DEFINE taken == Append(s.current, next)
  <2>3. TakeNext(s, next) = [[s EXCEPT !.current = taken, !.started = TRUE] EXCEPT !.skip = TRUE]
    BY DEF TakeNext, Take
  <2>4. taken = Append(t.current, next)
    BY DEF SameWords
  <2> HIDE DEF taken
  <2>5. Ahead(TakeNext(s, next), AfterShlex(t, c), next)
    BY <2>1, <2>2, <2>3, <2>4 DEF SameWords, Ahead, StaticType, ShlexType
  <2> QED
    BY <1>1, <2>1, <2>5 DEF Abreast
<1>7. CASE c \notin {Blank, Single, Double, Backslash}
  <2>1. Unquoted(s, c, next) = Take(s, c)
    BY <1>3, <1>7 DEF Unquoted, Expanding
  <2>2. AfterShlex(t, c) = Take(t, c)
    BY <1>7 DEF AfterShlex, SameWords
  <2>3. SameWords(Unquoted(s, c, next), AfterShlex(t, c))
    BY <2>1, <2>2, TakeBoth
  <2> QED
    BY <1>1, <2>3 DEF Abreast
<1> QED
  BY <1>4, <1>5, <1>6, <1>7

\* A character in quotes.
LEMMA AbreastQuoted ==
  ASSUME NEW s \in StaticType, NEW t \in ShlexType, NEW c \in Characters \ Expanding,
         NEW next, next \notin Expanding,
         s.verdict = "reading", AfterStatic(s, c, next).verdict = "reading",
         SameWords(s, t), s.quote \in {"single", "double"}
  PROVE  Abreast(AfterStatic(s, c, next), AfterShlex(t, c), next)
<1>1. c \notin {Nul, Newline}
  BY DEF SameWords, AfterStatic, Unsafe, StaticType
<1>2. CASE s.quote = "single"
  <2>1. AfterStatic(s, c, next) = IF c = Single THEN Leave(s) ELSE Take(s, c)
    BY <1>1, <1>2 DEF SameWords, AfterStatic, InSingles
  <2>2. AfterShlex(t, c) = IF c = Single THEN Leave(t) ELSE Take(t, c)
    BY <1>2 DEF SameWords, AfterShlex
  <2>3. SameWords(AfterStatic(s, c, next), AfterShlex(t, c))
    BY <2>1, <2>2, TakeBoth
  <2> QED
    BY <2>3 DEF Abreast
<1>3. CASE s.quote = "double"
  <2>1. AfterStatic(s, c, next) = InDoubles(s, c, next)
    BY <1>1, <1>3 DEF SameWords, AfterStatic
  <2>2. ~(c = Backslash /\ next \in Ends)
    <3>1. Unsafe(s).verdict = "unsafe"
      BY DEF Unsafe, StaticType
    <3> QED
      BY <2>1, <3>1 DEF InDoubles, Ends, NoCharacter, Newline, Expanding, Double, Dollar, Backtick, Backslash
  <2>3. CASE c = Backslash /\ next \in {Double, Backslash}
    <3>1. InDoubles(s, c, next) = TakeNext(s, next) /\ next # NoCharacter
      BY <2>2, <2>3 DEF InDoubles, Ends, Expanding
    <3>2. AfterShlex(t, c) = [t EXCEPT !.escape = TRUE]
      BY <1>3, <2>3 DEF AfterShlex, SameWords, Single, Double, Backslash, Blank
    <3>3. Ahead(InDoubles(s, c, next), AfterShlex(t, c), next)
      BY <2>3, <3>1, <3>2 DEF SameWords, Ahead, TakeNext, Take, StaticType, ShlexType
    <3> QED
      BY <2>1, <3>3 DEF Abreast
  <2>4. CASE c = Backslash /\ next \notin {Double, Backslash}
    <3>1. InDoubles(s, c, next) = Take(s, c)
      BY <2>2, <2>4 DEF InDoubles, Ends, Expanding, Double, Dollar, Backtick, Backslash
    <3>2. AfterShlex(t, c) = [t EXCEPT !.escape = TRUE]
      BY <1>3, <2>4 DEF AfterShlex, SameWords, Single, Double, Backslash, Blank
    <3> DEFINE taken == Append(s.current, Backslash)
    <3>3. Take(s, c) = [s EXCEPT !.current = taken, !.started = TRUE] /\ taken = Append(t.current, Backslash)
      BY <2>4 DEF Take, SameWords
    <3>4. next \notin {Double, Backslash} \cup Expanding \cup Ends
      BY <2>2, <2>4
    <3> HIDE DEF taken
    <3>5. AtBackslash(Take(s, c), AfterShlex(t, c), next)
      BY <1>3, <3>2, <3>3, <3>4 DEF SameWords, AtBackslash, StaticType, ShlexType
    <3> QED
      BY <2>1, <3>1, <3>5 DEF Abreast
  <2>5. CASE c # Backslash
    <3>1. InDoubles(s, c, next) = IF c = Double THEN Leave(s) ELSE Take(s, c)
      BY <2>5 DEF InDoubles
    <3>2. AfterShlex(t, c) = IF c = Double THEN Leave(t) ELSE Take(t, c)
      BY <1>3, <2>5 DEF AfterShlex, SameWords
    <3>3. SameWords(InDoubles(s, c, next), AfterShlex(t, c))
      BY <3>1, <3>2, TakeBoth
    <3> QED
      BY <2>1, <3>3 DEF Abreast
  <2> QED
    BY <2>3, <2>4, <2>5
<1> QED
  BY <1>2, <1>3

\* Each character keeps the scan and shlex.split abreast.
LEMMA AbreastStep ==
  ASSUME NEW s \in StaticType, NEW t \in ShlexType, NEW c \in Characters \ Expanding,
         NEW next, next \notin Expanding,
         s.verdict = "reading", AfterStatic(s, c, next).verdict = "reading", Abreast(s, t, c)
  PROVE  Abreast(AfterStatic(s, c, next), AfterShlex(t, c), next)
<1>1. CASE SameWords(s, t)
  <2>1. s.quote \in {"none", "single", "double"}
    BY <1>1 DEF SameWords, ShlexType
  <2> QED
    BY <1>1, <2>1, AbreastUnquoted, AbreastQuoted
<1>2. CASE Ahead(s, t, c) \/ AtBackslash(s, t, c)
  BY <1>2, AfterEscape DEF Abreast
<1> QED
  BY <1>1, <1>2 DEF Abreast

\* The states of shlex.split over a text.
Lexes(run, chars) ==
  run[0] = NoTokens /\ \A k \in 1..Len(chars) : run[k] = AfterShlex(run[k - 1], chars[k])

LexInv ==
  static.verdict = "reading" /\ ~Holds(Expanding) =>
    \A run : Lexes(run, text) =>
      run[pos - 1] \in ShlexType /\ Abreast(static, run[pos - 1], Following(text, pos - 1))

\* Both start with nothing.
LEMMA LexInit == StartReading => LexInv
<1> SUFFICES ASSUME StartReading, NEW run, Lexes(run, text)
             PROVE  run[pos - 1] \in ShlexType /\ Abreast(static, run[pos - 1], Following(text, pos - 1))
  BY DEF LexInv
<1>1. run[pos - 1] = NoTokens
  BY DEF StartReading, Lexes
<1>2. SameWords(NoWords, NoTokens)
  BY DEF SameWords, NoWords, NoTokens
<1> QED
  BY <1>1, <1>2, ShlexTypes DEF StartReading, Abreast

\* Both read the same character.
LEMMA LexNext == TextInv /\ LexInv /\ ReadCharacter => LexInv'
<1> SUFFICES ASSUME TextInv, LexInv, ReadCharacter PROVE LexInv'
  OBVIOUS
<1> DEFINE c == text[pos]
           next == Following(text, pos)
<1>1. /\ text \in Seq(Characters) /\ static \in StaticType
      /\ pos \in 1..Len(text) /\ Len(text) \in Nat /\ c \in Characters
      /\ static' = AfterStatic(static, c, next) /\ pos' = pos + 1 /\ text' = text
  BY DEF TextInv, ReadCharacter
<1> SUFFICES ASSUME static'.verdict = "reading", ~Holds(Expanding), NEW run, Lexes(run, text)
             PROVE  run[pos] \in ShlexType /\ Abreast(static', run[pos], next)
  BY <1>1 DEF LexInv, Holds
<1>2. static.verdict = "reading"
  BY <1>1 DEF AfterStatic
<1>3. run[pos - 1] \in ShlexType /\ Abreast(static, run[pos - 1], c)
  <2>1. Following(text, pos - 1) = c
    BY <1>1 DEF Following
  <2> QED
    BY <1>2, <2>1 DEF LexInv
<1>4. run[pos] = AfterShlex(run[pos - 1], c)
  BY <1>1 DEF Lexes
<1>5. c \notin Expanding /\ next \notin Expanding
  <2>1. \A i \in 1..Len(text) : text[i] \notin Expanding
    BY <1>1 DEF Holds
  <2>2. NoCharacter \notin Expanding
    BY ShellTextAssumption DEF Expanding, Characters, Specials
  <2>3. pos < Len(text) => pos + 1 \in 1..Len(text)
    BY <1>1
  <2> QED
    BY <1>1, <2>1, <2>2, <2>3 DEF Following
<1> HIDE DEF c, next
<1> QED
  BY <1>1, <1>2, <1>3, <1>4, <1>5, AbreastStep, ShlexTypes

\* shlex finds the words the scan has found, wherever nothing expands.
LEMMA TokensAgree == TextInv /\ LexInv => TokensAreTheWords
<1> SUFFICES ASSUME TextInv, LexInv, Read, Static(static), ~Commented(static), ~Holds(Expanding),
                    Normalized(text) = text
             PROVE  TokensOf(text) = WordsOf(static)
  BY DEF TokensAreTheWords
<1>1. text \in Seq(Characters) /\ pos = Len(text) + 1 /\ Len(text) \in Nat
  BY DEF TextInv, Read
<1>2. static.verdict = "reading" /\ static.quote = "none"
  BY DEF Static, Commented
<1>3. PICK run : /\ run[0] = NoTokens
                 /\ \A k \in 1..Len(text) : run[k] = AfterShlex(run[k - 1], text[k])
                 /\ FoldLeft(AfterShlex, NoTokens, text) = run[Len(text)]
  BY <1>1, ShlexRun
<1> DEFINE t == run[Len(text)]
<1>4. Abreast(static, t, NoCharacter)
  <2>1. Lexes(run, text)
    BY <1>3 DEF Lexes
  <2>2. pos - 1 = Len(text) /\ Following(text, pos - 1) = NoCharacter
    BY <1>1 DEF Following
  <2> QED
    BY <1>2, <2>1, <2>2 DEF LexInv
<1>5. SameWords(static, t)
  BY <1>4 DEF Abreast, Ahead, AtBackslash, Ends
<1>6. WordsOf(t) = WordsOf(static) /\ ~t.escape /\ t.quote = "none"
  BY <1>2, <1>5 DEF SameWords, WordsOf
<1>7. FoldLeft(AfterShlex, NoTokens, Normalized(text)) = t
  BY <1>3
<1> HIDE DEF t
<1> QED
  BY Zenon, <1>6, <1>7 DEF TokensOf

-----------------------------------------------------------------------------
(* The steps. *)

\* Every step of a text's reading and decision is one of a command's
\* resolution, or none.
LEMMA StepImplements == TextInv /\ [Next]_vars => [TerminalNext]_terminalVars
<1> SUFFICES ASSUME TextInv, [Next]_vars PROVE [TerminalNext]_terminalVars
  OBVIOUS
<1>1. CASE ReadNext \/ UNCHANGED vars
  BY <1>1 DEF ReadNext, vars
<1>2. CASE Present
  <2> DEFINE c == IF text = <<>> THEN NoCommand ELSE CommandOf(text, control, static)
  <2>1. Receive(c)
    BY <1>2 DEF Present
  <2>2. c # NoCommand => IsCommand(c)
    BY PresentedIsCommand DEF TextInv
  <2> HIDE DEF c
  <2>3. command' = c
    BY <2>1 DEF Receive
  <2> QED
    BY <2>1, <2>2, <2>3 DEF TerminalNext, ReceiveAny
<1>3. CASE Decide
  BY <1>3 DEF Decide, TerminalNext
<1> QED
  BY <1>1, <1>2, <1>3 DEF Next, Finished

\* A text's command is resolved as any command with words is.
THEOREM TextImplementsTerminal == Spec => TerminalSpec
<1>1. Init => TerminalInit
  BY DEF Init
<1> QED
  BY <1>1, ReadingInit, ReadingNext, StepImplements, PTL DEF Spec, TerminalSpec

\* The scans agree on whatever text a command has.
THEOREM ScansAgreeOnCommands == Spec => []ScannersAgree
BY ReadingInit, ReadingNext, Agreement, PTL DEF Spec

\* A destructive push stays a deletion or is not classified, however its
\* words are quoted.
THEOREM QuotedDestructivePush == Spec => []DestructivePushStays
BY TextImplementsTerminal, DestructivePush, PTL

\* A push is charged with what its first argument names, however its words
\* are quoted.
THEOREM QuotedPushCharged == Spec => []PushIsCharged
BY TextImplementsTerminal, PushCharged, PTL

\* A matching rule decides a text exactly if the mandatory checks leave what
\* was found in it to the rules.
THEOREM TextRuleBoundary == Spec => []RuleDecidesTheRest
BY TextImplementsTerminal, RuleBoundary, PTL

\* No text whose words are not known is charged as git's.
THEOREM TextWordsNeeded == Spec => []GitNeedsWords
BY TextImplementsTerminal, WordsNeeded, PTL

\* As the command is received.
LEMMA LexingInit == Init => LexInv
BY LexInit DEF Init

\* Over the steps of the whole.
LEMMA LexingNext == TextInv /\ LexInv /\ [Next]_vars => LexInv'
<1> SUFFICES ASSUME TextInv, LexInv, [Next]_vars PROVE LexInv'
  OBVIOUS
<1>1. CASE ReadNext
  BY <1>1, LexNext DEF ReadNext
<1>2. CASE Present
  <2>1. StartReading'
    BY <1>2 DEF Present, StartReading
  <2>2. (StartReading => LexInv)'
    BY LexInit, PTL
  <2> QED
    BY <2>1, <2>2
<1>3. CASE Decide \/ UNCHANGED vars
  <2>1. UNCHANGED textVars
    BY <1>3 DEF Decide, vars
  <2> QED
    BY <2>1 DEF textVars, LexInv, Holds
<1> QED
  BY <1>1, <1>2, <1>3 DEF Next, Finished

\* The classifiers' tokens are the words the mandatory checks examined, on
\* any text without an expansion that joining its fields leaves as it is.
THEOREM TokensAreWords == Spec => []TokensAreTheWords
BY ReadingInit, ReadingNext, LexingInit, LexingNext, TokensAgree, PTL DEF Spec

\* An image is charged only if it is the one of the words docker gets,
\* whatever the text that shlex splits into these words.
THEOREM TextImageRuns == Spec => []ImageIsUnambiguous
BY TextImplementsTerminal, ImageRuns, PTL

-----------------------------------------------------------------------------
\* The scans read the text of the line, if it is of one.
WrittenInv ==
  /\ line # NoLine => IsLine(line) /\ Len(line) # 0 /\ text = RenderLine(line)
  /\ \E run : Scans(run, text) /\ run[pos - 1].s = static /\ run[pos - 1].k = control

\* The scans of any text.
LEMMA ScansExist ==
  ASSUME NEW chars \in Seq(Characters) PROVE \E run : Scans(run, chars)
<1> DEFINE N == Len(chars)
           T == [s : StaticType, k : ControlType]
           base == [s |-> NoWords, k |-> NoControl]
           After(x) == [s |-> AfterStatic(x[1].s, chars[x[2]], Following(chars, x[2])),
                        k |-> AfterControl(x[1].k, chars[x[2]], Following(chars, x[2]))]
           step == [x \in T \X (1..N) |-> After(x)]
<1>1. N \in Nat
  OBVIOUS
<1>2. base \in T
  <2>1. NoControl \in ControlType
    BY DEF NoControl, ControlType
  <2> DEFINE none == <<>>
  <2>2. none \in Seq(Characters) /\ none \in Seq(Seq(Characters))
    OBVIOUS
  <2> HIDE DEF none
  <2>3. NoWords \in StaticType
    BY <2>2 DEF NoWords, StaticType, none
  <2> QED
    BY <2>1, <2>3
<1>3. ASSUME NEW x \in T \X (1..N) PROVE After(x) \in T
  <2> DEFINE state == x[1]
             i == x[2]
  <2>1. state.s \in StaticType /\ state.k \in ControlType /\ i \in 1..N
    OBVIOUS
  <2>2. chars[i] \in Characters /\ Following(chars, i) \in Characters \cup {NoCharacter}
    BY <1>1, <2>1 DEF Following
  <2> HIDE DEF state, i
  <2>3. /\ AfterStatic(state.s, chars[i], Following(chars, i)) \in StaticType
        /\ AfterControl(state.k, chars[i], Following(chars, i)) \in ControlType
    BY <2>1, <2>2, StaticTypes, ControlTypes
  <2> QED
    BY <2>3 DEF state, i
<1>4. step \in [T \X (1..N) -> T]
  <2> HIDE DEF T, After
  <2> QED
    BY <1>3
<1>5. PICK run : run[0] = base /\ \A k \in 1..N : run[k] = step[<<run[k - 1], k>>]
  <2> HIDE DEF T, N, base, step
  <2>1. \E run : IsRun(run, base, N, step)
    BY <1>1, <1>2, <1>4, RunExists
  <2> QED
    BY Zenon, <2>1 DEF IsRun
<1>6. \A k \in 1..N : run[k - 1] \in T => run[k] = After(<<run[k - 1], k>>) /\ run[k] \in T
  <2> SUFFICES ASSUME NEW k \in 1..N, run[k - 1] \in T
               PROVE  run[k] = After(<<run[k - 1], k>>) /\ run[k] \in T
    OBVIOUS
  <2>1. <<run[k - 1], k>> \in T \X (1..N)
    <3> HIDE DEF T, N
    <3> QED
      OBVIOUS
  <2> HIDE DEF T, N, After
  <2>2. step[<<run[k - 1], k>>] = After(<<run[k - 1], k>>)
    BY <2>1
  <2> QED
    BY <1>3, <1>5, <2>1, <2>2
<1>7. \A k \in 0..N : run[k] \in T
  <2>1. run[0] \in T
    BY <1>2, <1>5
  <2> HIDE DEF T, N, After
  <2> QED
    BY <1>1, <1>6, <2>1, RunStays
<1>8. ASSUME NEW k \in 1..N
      PROVE  /\ run[k].s = AfterStatic(run[k - 1].s, chars[k], Following(chars, k))
             /\ run[k].k = AfterControl(run[k - 1].k, chars[k], Following(chars, k))
  <2>1. k - 1 \in 0..N
    BY <1>1
  <2>2. run[k] = After(<<run[k - 1], k>>)
    <3> HIDE DEF T, N, After
    <3> QED
      BY <1>6, <1>7, <2>1
  <2> DEFINE before == run[k - 1]
  <2> HIDE DEF before
  <2>3. run[k] = After(<<before, k>>)
    BY <2>2 DEF before
  <2>4. <<before, k>>[1] = before /\ <<before, k>>[2] = k
    OBVIOUS
  <2>5. /\ run[k].s = AfterStatic(before.s, chars[k], Following(chars, k))
        /\ run[k].k = AfterControl(before.k, chars[k], Following(chars, k))
    BY <2>3, <2>4
  <2> QED
    BY <2>5 DEF before
<1>9. run[0].s = NoWords /\ run[0].k = NoControl
  BY <1>5
<1> QED
  BY <1>8, <1>9 DEF Scans

\* Before the first character.
LEMMA WrittenStart ==
  text \in Seq(Characters) /\ StartReading /\ (line # NoLine => IsLine(line) /\ Len(line) # 0 /\ text = RenderLine(line))
    => WrittenInv
<1> SUFFICES ASSUME text \in Seq(Characters), StartReading
             PROVE  \E run : Scans(run, text) /\ run[pos - 1].s = static /\ run[pos - 1].k = control
  BY DEF WrittenInv
<1>1. PICK run : Scans(run, text)
  BY ScansExist
<1>2. pos - 1 = 0
  BY DEF StartReading
<1> QED
  BY <1>1, <1>2 DEF StartReading, Scans

\* As the command is received.
LEMMA WrittenInit == Init => WrittenInv
<1> SUFFICES ASSUME Init PROVE WrittenInv
  OBVIOUS
<1>1. CASE text \in Texts /\ line = NoLine
  <2>1. text \in Seq(Characters)
    BY <1>1, ShellLineAssumption
  <2> QED
    BY <1>1, <2>1, WrittenStart DEF Init
<1>2. CASE line \in Lines /\ text = RenderLine(line)
  <2>1. IsLine(line)
    BY <1>2, ShellLineAssumption
  <2>2. text \in Seq(Characters)
    BY <1>2, <2>1, LineTypes
  <2>3. line # NoLine => Len(line) # 0
    <3>1. line \in Seq([before : Seq(Characters), word : Seq(Segment)])
      BY <2>1 DEF IsLine
    <3> DEFINE R == [before : Seq(Characters), word : Seq(Segment)]
    <3> HIDE DEF R
    <3>2. line \in Seq(R)
      BY <3>1 DEF R
    <3> QED
      BY <3>2 DEF NoLine
  <2> QED
    BY <1>2, <2>1, <2>2, <2>3, WrittenStart DEF Init
<1> QED
  BY <1>1, <1>2 DEF Init

\* The scans go on along the same text.
LEMMA WrittenNext == TextInv /\ WrittenInv /\ [Next]_vars => WrittenInv'
<1> SUFFICES ASSUME TextInv, WrittenInv, [Next]_vars PROVE WrittenInv'
  OBVIOUS
<1>1. CASE ReadNext
  <2>1. PICK run : Scans(run, text) /\ run[pos - 1].s = static /\ run[pos - 1].k = control
    BY DEF WrittenInv
  <2>2. /\ text' = text /\ line' = line /\ pos' = pos + 1 /\ pos \in 1..Len(text)
        /\ static' = AfterStatic(static, text[pos], Following(text, pos))
        /\ control' = AfterControl(control, text[pos], Following(text, pos))
    BY <1>1 DEF ReadNext, ReadCharacter, TextInv
  <2>3. run[pos].s = static' /\ run[pos].k = control'
    BY <2>1, <2>2 DEF Scans
  <2>4. pos' - 1 = pos
    BY <2>2
  <2>5. \E other : Scans(other, text') /\ other[pos' - 1].s = static' /\ other[pos' - 1].k = control'
    BY <2>1, <2>2, <2>3, <2>4
  <2> QED
    BY <2>2, <2>5 DEF WrittenInv
<1>2. CASE Present
  <2>1. StartReading' /\ (text \in Seq(Characters))' /\ line' = NoLine
    BY <1>2 DEF Present, StartReading
  <2>2. (line # NoLine => IsLine(line) /\ Len(line) # 0 /\ text = RenderLine(line))'
    BY <2>1 DEF NoLine
  <2>3. (text \in Seq(Characters) /\ StartReading
           /\ (line # NoLine => IsLine(line) /\ Len(line) # 0 /\ text = RenderLine(line)) => WrittenInv)'
    BY WrittenStart, PTL
  <2> QED
    BY <2>1, <2>2, <2>3
<1>3. CASE Decide \/ UNCHANGED vars
  <2>1. UNCHANGED <<textVars, line>>
    BY <1>3 DEF Decide, vars
  <2> QED
    BY <2>1 DEF textVars, WrittenInv
<1> QED
  BY <1>1, <1>2, <1>3 DEF Next, Finished

\* The words of a line are a shell's.
LEMMA WordsAgree == TextInv /\ WrittenInv => WordsAreTheShells
<1> SUFFICES ASSUME TextInv, WrittenInv, Read, line # NoLine PROVE WordsAreTheShells
  BY DEF WordsAreTheShells
<1> DEFINE N == Len(line)
           stop == SelectInSeq(line, LAMBDA w : w.before \notin {<<>>, <<Blank>>})
           before(i) == line[i].before
           known == IF stop = 0 THEN line ELSE SubSeq(line, 1, stop - 1)
           operators == \E i \in DOMAIN line : line[i].before \notin {<<>>, <<Blank>>, Comment}
           words == [i \in DOMAIN known |-> Spell(known[i].word)]
<1>1. IsLine(line) /\ N \in Nat /\ N # 0 /\ text = RenderLine(line) /\ DOMAIN line = 1..N
  BY LineTypes DEF WrittenInv
<1>2. PICK run : Scans(run, text) /\ run[pos - 1].s = static /\ run[pos - 1].k = control
  BY DEF WrittenInv
<1> DEFINE at == run[Len(text)]
<1>3. at.s = static /\ at.k = control
  <2>1. pos - 1 = Len(text)
    BY DEF TextInv, Read
  <2> QED
    BY <1>2, <2>1
<1>4. static \in StaticType /\ control \in ControlType
  BY DEF TextInv
<1>5. LineRead(line, at, N)
  BY <1>1, <1>2, WholeRead
<1> DEFINE S == {i \in 1..N : Stops(before(i))}
<1>6. stop = IF S # {} THEN Min(S) ELSE 0
  <2>1. stop = LET I == {i \in 1..Len(line) : line[i].before \notin {<<>>, <<Blank>>}}
               IN IF I # {} THEN Min(I) ELSE 0
    BY DEF SelectInSeq
  <2> QED
    BY <2>1 DEF Stops
<1> HIDE DEF at, stop
<1>7. operators <=> \E i \in 1..N : Operates(before(i))
  BY <1>1 DEF Operates
<1>8. operators => ControlKind(control) # "none"
  <2>1. operators => ~Clear(control)
    BY <1>3, <1>5, <1>7 DEF LineRead
  <2> QED
    BY <1>4, <2>1 DEF ControlKind, Unsupported, Clear, ControlType
<1>9. CASE S = {}
  <2>1. stop = 0 /\ \A i \in 1..N : ~Stops(before(i))
    BY <1>6, <1>9
  <2>2. Reads(at, FALSE, "none", Spell(line[N].word), TRUE, Known(line, N - 1))
    BY <1>5, <2>1 DEF LineRead
  <2>3. Calm(control, "none") /\ Spells(static, "none", Spell(line[N].word), TRUE, Known(line, N - 1))
    BY <1>3, <2>2 DEF Reads
  <2>4. ControlKind(control) = "none"
    BY <2>3 DEF Calm, Clear, ControlQuote, ControlKind, Unsupported
  <2>5. Static(static) /\ ~Commented(static)
    BY <2>3 DEF Spells, Static, Commented
  <2>6. WordsOf(static) = Append(Known(line, N - 1), Spell(line[N].word))
    BY <2>3 DEF WordsOf, Spells
  <2>7. Append(Known(line, N - 1), Spell(line[N].word)) = Known(line, N)
    <3>1. N \in 1..Len(line)
      BY <1>1
    <3> QED
      BY <1>1, <3>1, KnownAppend
  <2>8. words = Known(line, N)
    BY <1>1, <2>1 DEF Known
  <2> HIDE DEF operators, words
  <2>9. /\ Static(static) <=> stop = 0 \/ line[stop].before = Comment
        /\ Commented(static) <=> stop > 0 /\ line[stop].before = Comment
        /\ Static(static) => WordsOf(static) = words
        /\ operators => ControlKind(control) # "none"
        /\ stop = 0 => ControlKind(control) = "none"
    BY <1>8, <2>1, <2>4, <2>5, <2>6, <2>7, <2>8
  <2> QED
    BY Zenon, <2>9 DEF WordsAreTheShells, stop, words, operators
<1>10. CASE S # {}
  <2>1. stop = Min(S) /\ S \in SUBSET (1..N)
    BY <1>6, <1>10
  <2>2. stop \in S /\ \A y \in S : stop <= y
    <3> HIDE DEF S, N
    <3>1. Min(S) \in S /\ \A y \in S : Min(S) <= y
      BY <1>1, <1>10, <2>1, MinInPositions
    <3> QED
      BY <2>1, <3>1
  <2>3. stop \in 1..N /\ Stops(before(stop)) /\ \A j \in 1..stop - 1 : ~Stops(before(j))
    <3>1. stop \in 1..N /\ Stops(before(stop))
      BY <2>2
    <3>2. ASSUME NEW j \in 1..stop - 1, Stops(before(j)) PROVE FALSE
      <4>1. j \in S
        BY <1>1, <3>1, <3>2
      <4>2. ~(stop <= j)
        BY <1>1, <3>1
      <4> QED
        BY <2>2, <4>1, <4>2
    <3> QED
      BY <3>1, <3>2
  <2>4. IF line[stop].before = Comment THEN Gives(static, Known(line, stop - 1)) ELSE static.verdict = "unsafe"
    BY <1>3, <1>5, <2>3 DEF LineRead
  <2>5. words = Known(line, stop - 1)
    <3>1. stop # 0 /\ stop - 1 \in 0..N /\ stop \in Nat
      BY <1>1, <2>3
    <3>2. Len(SubSeq(line, 1, stop - 1)) = stop - 1 /\ DOMAIN SubSeq(line, 1, stop - 1) = 1..stop - 1
          /\ \A i \in 1..stop - 1 : SubSeq(line, 1, stop - 1)[i] = line[i]
      <4> DEFINE R == [before : Seq(Characters), word : Seq(Segment)]
      <4>1. line \in Seq(R)
        BY <1>1 DEF IsLine
      <4> HIDE DEF R
      <4> QED
        BY <1>1, <3>1, <4>1
    <3> DEFINE first == SubSeq(line, 1, stop - 1)
    <3> HIDE DEF first
    <3>3. [i \in DOMAIN first |-> Spell(first[i].word)] = Known(line, stop - 1)
      BY <3>2 DEF first, Known
    <3>4. known = first
      BY <3>1 DEF first
    <3> QED
      BY Zenon, <3>3, <3>4
  <2> HIDE DEF operators, words, N, S, before
  <2>6. stop > 0 /\ stop # 0
    BY <1>1, <2>3
  <2>7. /\ Static(static) <=> stop = 0 \/ line[stop].before = Comment
        /\ Commented(static) <=> stop > 0 /\ line[stop].before = Comment
        /\ Static(static) => WordsOf(static) = words
        /\ operators => ControlKind(control) # "none"
        /\ stop = 0 => ControlKind(control) = "none"
    BY <1>8, <2>4, <2>5, <2>6 DEF Gives, Static, Commented
  <2> QED
    BY Zenon, <2>7 DEF WordsAreTheShells, stop, words, operators
<1> QED
  BY <1>9, <1>10

\* The words the classifiers are given are those a shell makes of the line,
\* up to its comment, and neither scan misses an operator between words nor
\* takes a quoted character for one, however long the line and its words.
THEOREM QuotingIsTheShells == Spec => []WordsAreTheShells
BY ReadingInit, ReadingNext, WrittenInit, WrittenNext, WordsAgree, PTL DEF Spec

-----------------------------------------------------------------------------
(* Types.  A word is its characters joined: what the proofs need of strings *)
(* is that characters are some and that joining two makes another.         *)

WordsJoin ==
  /\ NoWord \in Words
  /\ Characters \subseteq Words
  /\ \A v, w \in Words : v \o w \in Words

\* Any number of characters makes a word.
LEMMA JoinedType ==
  ASSUME WordsJoin, NEW chars \in Seq(Characters)
  PROVE  FoldLeft(LAMBDA word, c : word \o c, "", chars) \in Words
<1> DEFINE N == Len(chars)
           D == DOMAIN chars
           T == Words
           base == ""
           step == [x \in T \X (1..N) |-> x[1] \o chars[x[2]]]
<1>1. N \in Nat /\ D = 1..N /\ \A k \in 1..N : chars[k] \in Words
  BY DEF WordsJoin
<1>b. base \in T
  BY DEF WordsJoin, NoWord
<1>2. step \in [T \X (1..N) -> T]
  <2>1. ASSUME NEW x \in T \X (1..N) PROVE x[1] \o chars[x[2]] \in T
    <3>1. x[1] \in Words /\ chars[x[2]] \in Words
      BY <1>1
    <3> QED
      BY <3>1 DEF WordsJoin
  <2> HIDE DEF T
  <2> QED
    BY <2>1
<1>3. PICK iter : iter \in [SUBSET (1..N) -> T] /\ Iterates(iter, base, N, step)
  <2> HIDE DEF T, N, step, base
  <2> QED
    BY <1>1, <1>2, <1>b, FoldExists
<1> DEFINE IsIter(it) ==
             it = [s \in SUBSET D |-> IF s = {} THEN base ELSE it[s \ {Max(s)}] \o chars[Max(s)]]
           chosen == CHOOSE it : IsIter(it)
<1>4. IsIter(iter)
  <2>1. ASSUME NEW s \in SUBSET (1..N)
        PROVE  iter[s] = IF s = {} THEN base ELSE iter[s \ {Max(s)}] \o chars[Max(s)]
    <3>1. iter[s] = IF s = {} THEN base ELSE step[<<iter[s \ {Max(s)}], Max(s)>>]
      <4> HIDE DEF T, N, step, base
      <4> QED
        BY <1>3 DEF Iterates
    <3>2. CASE s = {}
      BY <3>1, <3>2
    <3>3. CASE s # {}
      <4>1. Max(s) \in 1..N
        BY <1>1, <3>3, MaxInPositions
      <4>2. s \ {Max(s)} \in SUBSET (1..N)
        OBVIOUS
      <4> HIDE DEF T
      <4>3. iter[s \ {Max(s)}] \in T
        BY <1>3, <4>2
      <4> HIDE DEF N
      <4>4. step[<<iter[s \ {Max(s)}], Max(s)>>] = iter[s \ {Max(s)}] \o chars[Max(s)]
        BY <4>1, <4>3
      <4> QED
        BY <3>1, <3>3, <4>4
    <3> QED
      BY <3>2, <3>3
  <2> HIDE DEF N, T, base
  <2> QED
    BY <1>1, <1>3, <2>1
<1>5. IsIter(chosen)
  BY Zenon, <1>4
<1>6. FoldLeft(LAMBDA word, c : word \o c, "", chars) = chosen[D]
  BY Zenon DEF FoldLeft, MapThenFoldSet
<1> DEFINE P == {k \in Nat : chosen[1..k] \in T}
<1>7. 0 \in P
  <2>1. (1..0) = {} /\ (1..0) \in SUBSET D
    BY <1>1
  <2>2. chosen[1..0] = base
    <3> HIDE DEF chosen, base
    <3> QED
      BY <1>5, <2>1
  <2> HIDE DEF chosen, T, base
  <2> QED
    BY <1>b, <2>2
<1>8. \A k \in 0..N - 1 : k \in P => k + 1 \in P
  <2> SUFFICES ASSUME NEW k \in 0..N - 1, k \in P PROVE k + 1 \in P
    OBVIOUS
  <2> DEFINE m == k + 1
  <2>1. m \in 1..N /\ m \in Nat /\ m # 0 /\ m - 1 = k
    <3> HIDE DEF N, P
    <3> QED
      BY <1>1
  <2> HIDE DEF m
  <2>2. Max(1..m) = m /\ (1..m) \ {m} = 1..k
    BY <2>1, FirstPositions
  <2>3. 1..m \in SUBSET D /\ 1..m # {}
    <3> HIDE DEF N, D, P
    <3>1. 1..m \subseteq 1..N /\ m \in 1..m
      BY <1>1, <2>1
    <3> QED
      BY Zenon, <1>1, <3>1
  <2>4. chosen[1..m] = chosen[1..k] \o chars[m]
    <3> HIDE DEF chosen, base
    <3> QED
      BY <1>5, <2>2, <2>3
  <2> HIDE DEF chosen
  <2>5. chosen[1..m] \in Words
    BY <1>1, <2>1, <2>4 DEF WordsJoin
  <2> QED
    BY <2>1, <2>5 DEF m
<1>9. N \in P
  <2> HIDE DEF P, N
  <2> QED
    BY <1>1, <1>7, <1>8, BoundedInduction
<1> HIDE DEF chosen
<1> QED
  BY <1>1, <1>6, <1>9

\* So words in characters are spelled as words.
LEMMA SpelledAsWords ==
  ASSUME WordsJoin, NEW ws \in Seq(Seq(Characters)) PROVE Spelled(ws) \in Seq(Words)
<1>1. ASSUME NEW i \in DOMAIN ws PROVE FoldLeft(LAMBDA word, c : word \o c, "", ws[i]) \in Words
  <2>1. ws[i] \in Seq(Characters)
    OBVIOUS
  <2> QED
    BY <2>1, JoinedType
<1>2. Spelled(ws) \in [1..Len(ws) -> Words] /\ Len(ws) \in Nat
  <2>1. DOMAIN ws = 1..Len(ws) /\ Len(ws) \in Nat
    OBVIOUS
  <2> QED
    BY Zenon, <1>1, <2>1 DEF Spelled
<1> QED
  BY <1>2

\* What is presented is a command.
LEMMA PresentedType ==
  ASSUME WordsJoin, static \in StaticType, text \in Seq(Characters)
  PROVE  CommandOf(text, control, static) \in CommandType
<1>1. /\ WordsOf(static) \in Seq(Seq(Characters)) /\ TokensOf(text) \in Seq(Seq(Characters))
      /\ FieldsOf(text) \in Seq(Seq(Characters))
  BY TokensType, FieldsType DEF WordsOf, StaticType
<1>2. /\ Spelled(WordsOf(static)) \in Seq(Words) /\ Spelled(TokensOf(text)) \in Seq(Words)
      /\ Spelled(FieldsOf(text)) \in Seq(Words)
  BY <1>1, SpelledAsWords
<1>3. ControlOf(control, text) \in {"none", "pipe", "other"}
  BY DEF ControlOf, ControlKind
<1>4. Static(static) \in BOOLEAN /\ Commented(static) \in BOOLEAN
      /\ (<<Push>> \in ToSet(FieldsOf(text))) \in BOOLEAN
  BY DEF Static, Commented
<1> QED
  BY Zenon, <1>2, <1>3, <1>4 DEF CommandOf, CommandType

\* The text is gone once its command is received, and that is a command.
TypedInv == (phase # "idle" => text = <<>>) /\ command \in CommandType \cup {NoCommand}

LEMMA TypedNext ==
  ASSUME WordsJoin PROVE TextInv /\ TypedInv /\ [Next]_vars => TypedInv'
<1> SUFFICES ASSUME TextInv, TypedInv, [Next]_vars PROVE TypedInv'
  OBVIOUS
<1>1. CASE ReadNext
  BY <1>1 DEF ReadNext, ReadCharacter, terminalVars, TypedInv
<1>2. CASE Present
  <2> DEFINE presented == CommandOf(text, control, static)
  <2>1. presented \in CommandType
    BY PresentedType DEF TextInv
  <2> HIDE DEF presented
  <2>2. text' = <<>> /\ (command' = NoCommand \/ command' = presented)
    BY <1>2 DEF Present, Receive, presented
  <2> QED
    BY <2>1, <2>2 DEF TypedInv
<1>3. CASE Decide
  <2>1. phase # "idle" /\ UNCHANGED command
    BY <1>3 DEF Decide, Resolve, SkipMissing, CheckControl, PassControl, CheckWords, CheckReinterpreter,
      ResolveGit, CheckComment, KeepGit, PassGit, UseRule, UseClassifier, Answer, Proceed
  <2>2. UNCHANGED text
    BY <1>3 DEF Decide, textVars
  <2> QED
    BY <2>1, <2>2 DEF TypedInv
<1>4. CASE UNCHANGED vars
  BY <1>4 DEF vars, terminalVars, textVars, TypedInv
<1> QED
  BY <1>1, <1>2, <1>3, <1>4 DEF Next, Finished

\* Type correctness from the text to the answer: the scans' words are in the
\* text's characters, the command they make is one, and the resolution of it
\* ends in an answer the boundary can act on.
THEOREM TextTypeCorrect == ASSUME WordsJoin PROVE Spec => []LineTypeOK
<1>1. Init => TypedInv
  BY DEF Init, TerminalInit, TypedInv
<1>2. TextInv /\ TypedInv /\ (command \in CommandType \cup {NoCommand} => TypeOK) => LineTypeOK
  BY DEF TextInv, TypedInv, StaticType, LineTypeOK
<1> QED
  BY <1>1, <1>2, TypedNext, ReadingInit, ReadingNext, TextImplementsTerminal, TypeCorrect, PTL DEF Spec
=============================================================================

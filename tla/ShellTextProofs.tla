-------------------------- MODULE ShellTextProofs --------------------------
(***************************************************************************)
(* The two scans agree on texts of any length: they are in the same quote  *)
(* at every character, but for the two characters of an escape or of a     *)
(* dollar before a quote, as long as neither has given up.                 *)
(***************************************************************************)
EXTENDS ShellText, TLAPS

ControlType ==
  [quote : {"none", "single", "double"}, skip : BOOLEAN, pipes : Nat, bad : BOOLEAN]

StaticType ==
  [quote : {"none", "single", "ansi", "double"}, skip : BOOLEAN, started : BOOLEAN,
   current : Seq(Characters), words : Seq(Seq(Characters)),
   verdict : {"reading", "unsafe", "commented"}]

\* The quote the other scan is in.
ControlQuote(quote) == IF quote = "ansi" THEN "single" ELSE quote

Together(k, s, c) == s.skip = k.skip /\ k.quote = ControlQuote(s.quote) /\ (s.skip => c # NoCharacter)

\* Behind a backslash in double quotes that stands for itself.
InEscape(k, s, c) ==
  /\ k.skip /\ ~s.skip
  /\ k.quote = "double" /\ s.quote = "double"
  /\ c \in Characters \ (Expanding \cup {Double, Backslash, Newline})

\* Between a dollar and its quote.
AtQuote(k, s, c) ==
  /\ s.skip /\ ~k.skip
  /\ k.quote = "none"
  /\ (s.quote = "ansi" /\ c = Single) \/ (s.quote = "double" /\ c = Double)

InStep(k, s, c) == Together(k, s, c) \/ InEscape(k, s, c) \/ AtQuote(k, s, c)

Clear(k) == ~k.bad /\ k.pipes = 0

LEMMA ControlTypes ==
  ASSUME NEW k \in ControlType, NEW c, NEW next PROVE AfterControl(k, c, next) \in ControlType
<1> DEFINE bad == [k EXCEPT !.bad = TRUE]
           passed == [k EXCEPT !.pipes = @ + 1, !.skip = next = Amp]
           other == [k EXCEPT !.quote = IF k.quote = "double" THEN "none" ELSE "double"]
           ended == [k EXCEPT !.quote = IF c = Single THEN "none" ELSE "single"]
           opened == [k EXCEPT !.quote = "single"]
           Skip(b) == [k EXCEPT !.skip = b]
<1>1. bad \in ControlType /\ opened \in ControlType
  BY DEF ControlType
<1>2. passed \in ControlType
  <2>1. (next = Amp) \in BOOLEAN
    OBVIOUS
  <2>2. ASSUME NEW b \in BOOLEAN PROVE [k EXCEPT !.pipes = @ + 1, !.skip = b] \in ControlType
    <3>1. k.pipes + 1 \in Nat
      BY DEF ControlType
    <3> DEFINE n == k.pipes + 1
    <3> HIDE DEF n
    <3>2. [k EXCEPT !.pipes = n, !.skip = b] \in ControlType
      BY <3>1 DEF ControlType, n
    <3> QED
      BY <3>2 DEF n
  <2> QED
    BY Zenon, <2>1, <2>2
<1>3. other \in ControlType /\ ended \in ControlType
  BY DEF ControlType
<1>4. Skip(TRUE) \in ControlType /\ Skip(FALSE) \in ControlType
  BY DEF ControlType
<1>5. OutsideSingles(k, c, next) \in {bad, Skip(TRUE), opened, other, passed, k}
  <2> HIDE DEF bad, Skip, opened, other, passed
  <2>1. OutsideSingles(k, c, next) =
          CASE c = Backslash /\ next \in Ends -> bad
            [] c = Backslash /\ next \notin Ends -> Skip(TRUE)
            [] c = Single /\ k.quote = "none" -> opened
            [] c = Double -> other
            [] c = Backtick \/ (c = Dollar /\ next = Open) -> bad
            [] c = Pipe /\ k.quote = "none" /\ next = Pipe -> bad
            [] c = Pipe /\ k.quote = "none" /\ next # Pipe -> passed
            [] c \in {Amp, Open, Operator} /\ k.quote = "none" -> bad
            [] OTHER -> k
    BY Zenon DEF OutsideSingles, bad, Skip, opened, other, passed
  <2> QED
    BY <2>1
<1> HIDE DEF bad, Skip, opened, other, passed, ended
<1>6. OutsideSingles(k, c, next) \in ControlType
  BY <1>1, <1>2, <1>3, <1>4, <1>5
<1>7. AfterControl(k, c, next) \in {k, Skip(FALSE), bad, ended, OutsideSingles(k, c, next)}
  BY DEF AfterControl, bad, Skip, ended
<1> QED
  BY <1>1, <1>2, <1>3, <1>4, <1>6, <1>7

LEMMA StaticTypes ==
  ASSUME NEW s \in StaticType, NEW c \in Characters, NEW next \in Characters \cup {NoCharacter}
  PROVE  AfterStatic(s, c, next) \in StaticType
<1>1. ASSUME NEW d \in Characters PROVE Take(s, d) \in StaticType /\ TakeNext(s, d) \in StaticType
  <2>1. Append(s.current, d) \in Seq(Characters)
    BY DEF StaticType
  <2> DEFINE taken == Append(s.current, d)
  <2> HIDE DEF taken
  <2>2. [s EXCEPT !.current = taken, !.started = TRUE] \in StaticType
    BY <2>1 DEF StaticType, taken
  <2>3. Take(s, d) \in StaticType
    BY <2>2 DEF Take, taken
  <2>4. \A t \in StaticType : [t EXCEPT !.skip = TRUE] \in StaticType
    BY DEF StaticType
  <2> QED
    BY <2>3, <2>4 DEF TakeNext
<1>2. Unsafe(s) \in StaticType /\ Leave(s) \in StaticType
  BY DEF Unsafe, Leave, StaticType
<1>3. ASSUME NEW q \in {"single", "ansi", "double"}
      PROVE  Enter(s, q) \in StaticType /\ [Enter(s, q) EXCEPT !.skip = TRUE] \in StaticType
  BY <1>3 DEF Enter, StaticType
<1>4. [s EXCEPT !.words = WordsOf(s), !.current = <<>>, !.started = FALSE] \in StaticType
  <2>1. WordsOf(s) \in Seq(Seq(Characters))
    BY DEF WordsOf, StaticType
  <2>2. <<>> \in Seq(Characters)
    OBVIOUS
  <2> DEFINE ws == WordsOf(s)
             none == <<>>
  <2> HIDE DEF ws, none
  <2>3. [s EXCEPT !.words = ws, !.current = none, !.started = FALSE] \in StaticType
    BY <2>1, <2>2 DEF StaticType, ws, none
  <2> QED
    BY <2>3 DEF ws, none
<1>5. InSingles(s, c) \in StaticType
  BY <1>1, <1>2 DEF InSingles
<1>6. InDoubles(s, c, next) \in StaticType
  <2>1. Expanding \cup {Double, Backslash} \subseteq Characters
    BY DEF Expanding, Characters, Specials
  <2> QED
    BY <1>1, <1>2, <2>1 DEF InDoubles
<1>7. Unquoted(s, c, next) \in StaticType
  <2>1. [s EXCEPT !.verdict = "commented"] \in StaticType
    BY DEF StaticType
  <2>2. next \notin Ends => TakeNext(s, next) \in StaticType
    BY <1>1 DEF Ends
  <2> QED
    BY <1>1, <1>2, <1>3, <1>4, <2>1, <2>2 DEF Unquoted
<1>8. [s EXCEPT !.skip = FALSE] \in StaticType
  BY DEF StaticType
<1>9. s.quote \in {"none", "single", "ansi", "double"}
  BY DEF StaticType
<1> QED
  BY <1>2, <1>5, <1>6, <1>7, <1>8, <1>9 DEF AfterStatic

-----------------------------------------------------------------------------
(* One character. *)

\* What a shell would put something else for, and NUL.
Hiding == Expanding \cup {Glob, Nul}

\* The scans stay in step, or the static one gives up at a character that
\* the other passes only if it hides something.
StaysInStep(k, s, k2, s2, c, next) ==
  /\ s2.verdict = "reading" => Clear(k2) /\ InStep(k2, s2, next)
  /\ s2.verdict = "unsafe" /\ Clear(k2) => c \in Hiding \/ s.quote = "ansi"
  /\ s2.quote = "ansi" => c = Dollar \/ s.quote = "ansi"

\* Two characters of an escape, or of a dollar and its quote.
LEMMA SecondStep ==
  ASSUME NEW k \in ControlType, NEW s \in StaticType,
         NEW c \in Characters, NEW next \in Characters \cup {NoCharacter},
         s.verdict = "reading", Clear(k),
         k.skip \/ s.skip, InStep(k, s, c)
  PROVE  StaysInStep(k, s, AfterControl(k, c, next), AfterStatic(s, c, next), c, next)
<1>1. CASE Together(k, s, c)
  <2>1. AfterControl(k, c, next) = [k EXCEPT !.skip = FALSE]
    BY <1>1 DEF AfterControl, Together, Clear
  <2>2. AfterStatic(s, c, next) = [s EXCEPT !.skip = FALSE]
    BY <1>1 DEF AfterStatic, Together
  <2> QED
    BY <1>1, <2>1, <2>2 DEF StaysInStep, Together, InStep, Clear, ControlType, StaticType
<1>2. CASE InEscape(k, s, c)
  <2>1. AfterControl(k, c, next) = [k EXCEPT !.skip = FALSE]
    BY <1>2 DEF AfterControl, InEscape, Clear
  <2>2. CASE c = Nul
    <3>1. AfterStatic(s, c, next) = Unsafe(s)
      BY <1>2, <2>2 DEF AfterStatic, InEscape
    <3> QED
      BY <1>2, <2>1, <2>2, <3>1 DEF StaysInStep, Unsafe, StaticType, Hiding, InEscape
  <2>3. CASE c # Nul
    <3>1. AfterStatic(s, c, next) = InDoubles(s, c, next)
      BY <1>2, <2>3 DEF AfterStatic, InEscape
    <3>2. InDoubles(s, c, next) = Take(s, c)
      BY <1>2 DEF InDoubles, InEscape
    <3>3. /\ Take(s, c).verdict = "reading" /\ Take(s, c).quote = "double" /\ Take(s, c).skip = FALSE
      BY <1>2 DEF Take, StaticType, InEscape
    <3> QED
      BY <1>2, <2>1, <3>1, <3>2, <3>3
      DEF StaysInStep, InEscape, InStep, Together, Clear, ControlType, ControlQuote
  <2> QED
    BY <2>2, <2>3
<1>3. CASE AtQuote(k, s, c)
  <2>1. AfterStatic(s, c, next) = [s EXCEPT !.skip = FALSE]
    BY <1>3 DEF AfterStatic, AtQuote
  <2>2. c \notin {Nul, Newline, Backslash, Backtick, Dollar}
    BY <1>3 DEF AtQuote, Single, Double, Nul, Newline, Backslash, Backtick, Dollar
  <2>3. AfterControl(k, c, next) = OutsideSingles(k, c, next)
    BY <1>3, <2>2 DEF AfterControl, AtQuote, Clear
  <2>4. CASE c = Single
    <3>1. OutsideSingles(k, c, next) = [k EXCEPT !.quote = "single"]
      BY <1>3, <2>2, <2>4 DEF OutsideSingles, AtQuote, Single, Double, Pipe, Amp, Open, Operator
    <3> QED
      BY <1>3, <2>1, <2>3, <2>4, <3>1
      DEF StaysInStep, AtQuote, InStep, Together, Clear, ControlType, StaticType, ControlQuote, Single, Double
  <2>5. CASE c = Double
    <3>1. OutsideSingles(k, c, next) = [k EXCEPT !.quote = "double"]
      BY <1>3, <2>2, <2>5 DEF OutsideSingles, AtQuote, Single, Double, Pipe, Amp, Open, Operator
    <3> QED
      BY <1>3, <2>1, <2>3, <2>5, <3>1
      DEF StaysInStep, AtQuote, InStep, Together, Clear, ControlType, StaticType, ControlQuote, Single, Double
  <2> QED
    BY <1>3, <2>4, <2>5 DEF AtQuote
<1> QED
  BY <1>1, <1>2, <1>3 DEF InStep

LEMMA StepInSingles ==
  ASSUME NEW k \in ControlType, NEW s \in StaticType,
         NEW c \in Characters, NEW next \in Characters \cup {NoCharacter},
         s.verdict = "reading", Clear(k), ~k.skip, ~s.skip,
         s.quote \in {"single", "ansi"}, k.quote = "single"
  PROVE  StaysInStep(k, s, AfterControl(k, c, next), AfterStatic(s, c, next), c, next)
<1>1. CASE c \in {Nul, Newline}
  <2>1. AfterStatic(s, c, next) = Unsafe(s) /\ AfterControl(k, c, next) = [k EXCEPT !.bad = TRUE]
    BY <1>1 DEF AfterStatic, AfterControl, Clear
  <2> QED
    BY <2>1 DEF StaysInStep, Unsafe, Clear, ControlType, StaticType
<1>2. CASE c \notin {Nul, Newline}
  <2>1. AfterControl(k, c, next) = [k EXCEPT !.quote = IF c = Single THEN "none" ELSE "single"]
    BY <1>2 DEF AfterControl, Clear
  <2>2. AfterStatic(s, c, next) = InSingles(s, c)
    BY <1>2 DEF AfterStatic
  <2>3. CASE c = Single
    <3>1. InSingles(s, c) = Leave(s)
      BY <2>3 DEF InSingles, Single, Backslash
    <3> QED
      BY <2>1, <2>2, <2>3, <3>1
      DEF StaysInStep, Leave, InStep, Together, Clear, ControlType, StaticType, ControlQuote
  <2>4. CASE c # Single /\ ~(c = Backslash /\ s.quote = "ansi")
    <3>1. InSingles(s, c) = Take(s, c)
      BY <2>4 DEF InSingles
    <3> QED
      BY <2>1, <2>2, <2>4, <3>1
      DEF StaysInStep, Take, InStep, Together, Clear, ControlType, StaticType, ControlQuote
  <2>5. CASE c = Backslash /\ s.quote = "ansi"
    <3>1. InSingles(s, c) = Unsafe(s)
      BY <2>5 DEF InSingles, Single, Backslash
    <3> QED
      BY <2>2, <2>5, <3>1 DEF StaysInStep, Unsafe, StaticType
  <2> QED
    BY <2>3, <2>4, <2>5
<1> QED
  BY <1>1, <1>2

LEMMA StepInDoubles ==
  ASSUME NEW k \in ControlType, NEW s \in StaticType,
         NEW c \in Characters, NEW next \in Characters \cup {NoCharacter},
         s.verdict = "reading", Clear(k), ~k.skip, ~s.skip,
         s.quote = "double", k.quote = "double"
  PROVE  StaysInStep(k, s, AfterControl(k, c, next), AfterStatic(s, c, next), c, next)
<1>1. CASE c \in {Nul, Newline}
  <2>1. AfterStatic(s, c, next) = Unsafe(s) /\ AfterControl(k, c, next) = [k EXCEPT !.bad = TRUE]
    BY <1>1 DEF AfterStatic, AfterControl, Clear
  <2> QED
    BY <2>1 DEF StaysInStep, Unsafe, Clear, ControlType, StaticType
<1>2. CASE c \notin {Nul, Newline}
  <2>1. AfterControl(k, c, next) = OutsideSingles(k, c, next)
    BY <1>2 DEF AfterControl, Clear
  <2>2. AfterStatic(s, c, next) = InDoubles(s, c, next)
    BY <1>2 DEF AfterStatic
  <2>3. CASE c = Double
    <3>1. InDoubles(s, c, next) = Leave(s)
      BY <2>3 DEF InDoubles, Expanding, Double, Dollar, Backtick, Backslash
    <3>2. OutsideSingles(k, c, next) = [k EXCEPT !.quote = "none"]
      BY <2>3 DEF OutsideSingles, Double, Single, Dollar, Backtick, Backslash, Pipe, Amp, Open, Operator
    <3> QED
      BY <2>1, <2>2, <3>1, <3>2
      DEF StaysInStep, Leave, InStep, Together, Clear, ControlType, StaticType, ControlQuote
  <2>4. CASE c \in Expanding
    <3>1. InDoubles(s, c, next) = Unsafe(s)
      BY <2>4 DEF InDoubles, Expanding, Double, Dollar, Backtick, Backslash
    <3> QED
      BY <2>2, <2>4, <3>1 DEF StaysInStep, Unsafe, StaticType, Hiding
  <2>5. CASE c = Backslash /\ next \in Ends
    <3>1. InDoubles(s, c, next) = Unsafe(s)
      BY <2>5 DEF InDoubles, Ends, NoCharacter, Newline, Expanding, Double, Dollar, Backtick, Backslash
    <3>2. OutsideSingles(k, c, next) = [k EXCEPT !.bad = TRUE]
      BY <2>5 DEF OutsideSingles, Double, Single, Dollar, Backtick, Backslash, Pipe, Amp, Open, Operator
    <3> QED
      BY <2>1, <2>2, <3>1, <3>2 DEF StaysInStep, Unsafe, Clear, ControlType, StaticType
  <2>6. CASE c = Backslash /\ next \notin Ends
    <3>1. OutsideSingles(k, c, next) = [k EXCEPT !.skip = TRUE]
      BY <2>6 DEF OutsideSingles, Double, Single, Dollar, Backtick, Backslash, Pipe, Amp, Open, Operator
    <3>2. CASE next \in Expanding \cup {Double, Backslash}
      <4>1. InDoubles(s, c, next) = TakeNext(s, next)
        BY <2>6, <3>2 DEF InDoubles, Expanding, Double, Dollar, Backtick, Backslash
      <4> QED
        BY <2>1, <2>2, <2>6, <3>1, <4>1
        DEF StaysInStep, TakeNext, Take, InStep, Together, Clear, ControlType, StaticType, ControlQuote, Ends
    <3>3. CASE next \notin Expanding \cup {Double, Backslash}
      <4>1. InDoubles(s, c, next) = Take(s, c)
        BY <2>6, <3>3 DEF InDoubles, Expanding, Double, Dollar, Backtick, Backslash
      <4>2. next \in Characters \ (Expanding \cup {Double, Backslash, Newline})
        BY <2>6, <3>3 DEF Ends
      <4> QED
        BY <2>1, <2>2, <3>1, <4>1, <4>2
        DEF StaysInStep, Take, InStep, InEscape, Clear, ControlType, StaticType
    <3> QED
      BY <3>2, <3>3
  <2>7. CASE c \notin Expanding \cup {Double, Backslash}
    <3>1. InDoubles(s, c, next) = Take(s, c)
      BY <2>7 DEF InDoubles
    <3>2. OutsideSingles(k, c, next) = k
      BY <2>7 DEF OutsideSingles, Expanding
    <3> QED
      BY <2>1, <2>2, <3>1, <3>2
      DEF StaysInStep, Take, InStep, Together, Clear, ControlType, StaticType, ControlQuote
  <2> QED
    BY <2>3, <2>4, <2>5, <2>6, <2>7
<1> QED
  BY <1>1, <1>2

LEMMA StepUnquoted ==
  ASSUME NEW k \in ControlType, NEW s \in StaticType,
         NEW c \in Characters, NEW next \in Characters \cup {NoCharacter},
         s.verdict = "reading", Clear(k), ~k.skip, ~s.skip,
         s.quote = "none", k.quote = "none"
  PROVE  StaysInStep(k, s, AfterControl(k, c, next), AfterStatic(s, c, next), c, next)
<1> DEFINE k2 == OutsideSingles(k, c, next)
           s2 == Unquoted(s, c, next)
<1>1. CASE c \in {Nul, Newline}
  <2>1. AfterStatic(s, c, next) = Unsafe(s) /\ AfterControl(k, c, next) = [k EXCEPT !.bad = TRUE]
    BY <1>1 DEF AfterStatic, AfterControl, Clear
  <2> QED
    BY <2>1 DEF StaysInStep, Unsafe, Clear, ControlType, StaticType
<1>2. CASE c \notin {Nul, Newline}
  <2>1. AfterControl(k, c, next) = k2
    BY <1>2 DEF AfterControl, Clear
  <2>2. AfterStatic(s, c, next) = s2
    BY <1>2 DEF AfterStatic
  <2> SUFFICES StaysInStep(k, s, k2, s2, c, next)
    BY <2>1, <2>2
  <2> HIDE DEF k2, s2
  <2>3. CASE c \in {Single, Double}
    <3>1. s2 = Enter(s, IF c = Single THEN "single" ELSE "double")
      BY <2>3 DEF s2, Unquoted, Blank, Hash, Single, Double, Dollar, Backslash, Backtick, Glob, Pipe, Amp,
                  Open, Operator, Expanding
    <3>2. k2 = [k EXCEPT !.quote = IF c = Single THEN "single" ELSE "double"]
      BY <2>3 DEF k2, OutsideSingles, Single, Double, Dollar, Backslash, Backtick, Pipe, Amp, Open, Operator
    <3> QED
      BY <3>1, <3>2
      DEF StaysInStep, Enter, InStep, Together, Clear, ControlType, StaticType, ControlQuote
  <2>4. CASE c = Backslash
    <3>1. CASE next \in Ends
      <4>1. s2 = Unsafe(s)
        BY <2>4, <3>1 DEF s2, Unquoted, Blank, Hash, Single, Double, Dollar, Backslash, Backtick, Glob, Pipe,
                          Amp, Open, Operator, Expanding
      <4>2. k2 = [k EXCEPT !.bad = TRUE]
        BY <2>4, <3>1 DEF k2, OutsideSingles, Single, Double, Dollar, Backslash, Backtick, Pipe, Amp, Open,
                          Operator
      <4> QED
        BY <4>1, <4>2 DEF StaysInStep, Unsafe, Clear, ControlType, StaticType
    <3>2. CASE next \notin Ends
      <4>1. s2 = TakeNext(s, next)
        BY <2>4, <3>2 DEF s2, Unquoted, Blank, Hash, Single, Double, Dollar, Backslash, Backtick, Glob, Pipe,
                          Amp, Open, Operator, Expanding
      <4>2. k2 = [k EXCEPT !.skip = TRUE]
        BY <2>4, <3>2 DEF k2, OutsideSingles, Single, Double, Dollar, Backslash, Backtick, Pipe, Amp, Open,
                          Operator
      <4> QED
        BY <3>2, <4>1, <4>2
        DEF StaysInStep, TakeNext, Take, InStep, Together, Clear, ControlType, StaticType, ControlQuote, Ends
    <3> QED
      BY <3>1, <3>2
  <2>5. CASE c = Dollar /\ next \in {Single, Double}
    <3>1. s2 = [Enter(s, IF next = Single THEN "ansi" ELSE "double") EXCEPT !.skip = TRUE]
      BY <2>5 DEF s2, Unquoted, Blank, Hash, Single, Double, Dollar, Backslash, Backtick, Glob, Pipe, Amp,
                  Open, Operator, Expanding
    <3>2. k2 = k
      BY <2>5 DEF k2, OutsideSingles, Single, Double, Dollar, Backslash, Backtick, Pipe, Amp, Open, Operator
    <3> QED
      BY <2>5, <3>1, <3>2
      DEF StaysInStep, Enter, InStep, AtQuote, Clear, ControlType, StaticType, Single, Double
  <2>6. CASE c \in Expanding \cup {Glob} /\ ~(c = Dollar /\ next \in {Single, Double})
    <3>1. s2 = Unsafe(s)
      BY <2>6 DEF s2, Unquoted, Blank, Hash, Single, Double, Dollar, Backslash, Backtick, Glob, Pipe, Amp,
                  Open, Operator, Expanding
    <3> QED
      BY <2>6, <3>1 DEF StaysInStep, Unsafe, StaticType, Hiding
  <2>7. CASE c \in {Pipe, Amp, Open, Operator}
    <3>1. s2 = Unsafe(s)
      BY <2>7 DEF s2, Unquoted, Blank, Hash, Single, Double, Dollar, Backslash, Backtick, Glob, Pipe, Amp,
                  Open, Operator, Expanding
    <3>2. k2.bad \/ k2.pipes = 1
      <4>1. CASE c = Pipe
        <5>1. CASE next = Pipe
          <6>1. k2 = [k EXCEPT !.bad = TRUE]
            BY <4>1, <5>1 DEF k2, OutsideSingles, Single, Double, Dollar, Backslash, Backtick, Pipe, Amp, Open,
                              Operator
          <6> QED
            BY <6>1 DEF ControlType
        <5>2. CASE next # Pipe
          <6>1. k2 = [k EXCEPT !.pipes = @ + 1, !.skip = next = Amp]
            BY <4>1, <5>2 DEF k2, OutsideSingles, Single, Double, Dollar, Backslash, Backtick, Pipe, Amp, Open,
                              Operator
          <6> QED
            BY <6>1 DEF ControlType, Clear
        <5> QED
          BY <5>1, <5>2
      <4>2. CASE c # Pipe
        <5>1. k2 = [k EXCEPT !.bad = TRUE]
          BY <2>7, <4>2 DEF k2, OutsideSingles, Single, Double, Dollar, Backslash, Backtick, Pipe, Amp, Open,
                            Operator
        <5> QED
          BY <5>1 DEF ControlType
      <4> QED
        BY <4>1, <4>2
    <3> QED
      BY <3>1, <3>2 DEF StaysInStep, Unsafe, StaticType, Clear
  <2>8. CASE c \notin {Single, Double, Backslash, Glob, Pipe, Amp, Open, Operator} \cup Expanding
    <3>1. k2 = k
      BY <2>8 DEF k2, OutsideSingles, Expanding
    <3>2. s2 \in {[s EXCEPT !.words = WordsOf(s), !.current = <<>>, !.started = FALSE],
                  [s EXCEPT !.verdict = "commented"], Take(s, c)}
      BY <2>8 DEF s2, Unquoted, Expanding
    <3>3. s2.quote = s.quote /\ s2.skip = s.skip /\ s2.verdict \in {"reading", "commented"}
      BY <3>2 DEF Take, StaticType
    <3> QED
      BY <3>1, <3>3 DEF StaysInStep, InStep, Together, Clear, ControlType, StaticType, ControlQuote
  <2> QED
    BY <2>3, <2>4, <2>5, <2>6, <2>7, <2>8 DEF Expanding
<1> QED
  BY <1>1, <1>2

LEMMA Step ==
  ASSUME NEW k \in ControlType, NEW s \in StaticType,
         NEW c \in Characters, NEW next \in Characters \cup {NoCharacter},
         s.verdict = "reading", Clear(k), InStep(k, s, c)
  PROVE  StaysInStep(k, s, AfterControl(k, c, next), AfterStatic(s, c, next), c, next)
<1>1. CASE k.skip \/ s.skip
  BY <1>1, SecondStep
<1>2. CASE ~k.skip /\ ~s.skip
  <2>1. k.quote = ControlQuote(s.quote)
    BY <1>2 DEF InStep, Together, InEscape, AtQuote
  <2>2. s.quote \in {"none", "single", "ansi", "double"}
    BY DEF StaticType
  <2>3. CASE s.quote \in {"single", "ansi"}
    BY <1>2, <2>1, <2>3, StepInSingles DEF ControlQuote
  <2>4. CASE s.quote = "double"
    BY <1>2, <2>1, <2>4, StepInDoubles DEF ControlQuote
  <2>5. CASE s.quote = "none"
    BY <1>2, <2>1, <2>5, StepUnquoted DEF ControlQuote
  <2> QED
    BY <2>2, <2>3, <2>4, <2>5
<1> QED
  BY <1>1, <1>2

\* What the control scan has found it keeps.
LEMMA FoundIsKept ==
  ASSUME NEW k \in ControlType, NEW c, NEW next, Clear(AfterControl(k, c, next)) PROVE Clear(k)
<1>1. CASE k.bad
  BY <1>1 DEF AfterControl, Clear
<1>2. CASE ~k.bad
  <2>1. AfterControl(k, c, next).pipes \in {k.pipes, k.pipes + 1}
    <3>1. OutsideSingles(k, c, next).pipes \in {k.pipes, k.pipes + 1}
      BY DEF OutsideSingles, ControlType
    <3>2. \/ AfterControl(k, c, next).pipes = k.pipes
          \/ AfterControl(k, c, next) = OutsideSingles(k, c, next)
      BY DEF AfterControl, ControlType
    <3> QED
      BY <3>1, <3>2
  <2> QED
    BY <1>2, <2>1 DEF Clear, ControlType
<1> QED
  BY <1>1, <1>2

-----------------------------------------------------------------------------
(* The whole text. *)

Current == IF pos <= Len(text) THEN text[pos] ELSE NoCharacter

TextInv ==
  /\ text \in Seq(Characters) /\ pos \in 1..Len(text) + 1
  /\ control \in ControlType /\ static \in StaticType
  /\ static.verdict = "reading" => Clear(control) /\ InStep(control, static, Current)
  /\ static.verdict = "unsafe" /\ Clear(control) => Holds(Hiding)
  /\ static.quote = "ansi" => Holds({Dollar})

LEMMA TextInit == text \in Seq(Characters) /\ StartReading => TextInv
<1> SUFFICES ASSUME text \in Seq(Characters), StartReading PROVE TextInv
  OBVIOUS
<1>1. NoControl \in ControlType /\ NoWords \in StaticType
  BY DEF NoControl, NoWords, ControlType, StaticType
<1>2. Clear(NoControl) /\ \A c : InStep(NoControl, NoWords, c)
  BY DEF Clear, InStep, Together, NoControl, NoWords, ControlQuote
<1>3. NoWords.verdict # "unsafe" /\ NoWords.quote # "ansi"
  BY DEF NoWords
<1> QED
  BY <1>1, <1>2, <1>3 DEF TextInv, StartReading

LEMMA TextNext == TextInv /\ [ReadCharacter]_textVars => TextInv'
<1> SUFFICES ASSUME TextInv, [ReadCharacter]_textVars PROVE TextInv'
  OBVIOUS
<1>1. CASE ReadCharacter
  <2> DEFINE c == text[pos]
             next == Following(text, pos)
  <2>1. /\ pos \in 1..Len(text) /\ Len(text) \in Nat
        /\ pos' = pos + 1 /\ text' = text
        /\ control' = AfterControl(control, c, next)
        /\ static' = AfterStatic(static, c, next)
    BY <1>1 DEF TextInv, ReadCharacter
  <2>2. c \in Characters /\ next \in Characters \cup {NoCharacter}
    BY <2>1 DEF TextInv, Following
  <2>3. Current = c /\ Current' = next
    BY <2>1 DEF Current, Following
  <2>4. control' \in ControlType /\ static' \in StaticType
    <3> HIDE DEF c, next
    <3> QED
      BY <2>1, <2>2, ControlTypes, StaticTypes DEF TextInv
  <2>5. \A cs : Holds(cs) => Holds(cs)'
    BY <2>1 DEF Holds
  <2>6. \A cs : c \in cs => Holds(cs)'
    BY <2>1 DEF Holds
  <2>7. Holds({Dollar})' => Holds(Hiding)'
    BY DEF Holds, Hiding, Expanding
  <2>8. CASE static.verdict = "reading"
    <3>1. StaysInStep(control, static, control', static', c, next)
      <4> HIDE DEF c, next
      <4> QED
        BY <2>1, <2>2, <2>3, <2>8, Step DEF TextInv
    <3> HIDE DEF c, next
    <3>2. static'.verdict = "reading" => Clear(control') /\ InStep(control', static', Current')
      BY <2>3, <3>1 DEF StaysInStep
    <3>3. static'.quote = "ansi" => Holds({Dollar})'
      BY <2>5, <2>6, <3>1 DEF StaysInStep, TextInv
    <3>4. static'.verdict = "unsafe" /\ Clear(control') => Holds(Hiding)'
      BY <2>5, <2>6, <2>7, <3>1 DEF StaysInStep, TextInv
    <3> QED
      BY <2>1, <2>4, <3>2, <3>3, <3>4 DEF TextInv
  <2>9. CASE static.verdict # "reading"
    <3>1. static' = static
      BY <2>1, <2>9 DEF AfterStatic
    <3>2. Clear(control') => Clear(control)
      <4> HIDE DEF c, next
      <4> QED
        BY <2>1, FoundIsKept DEF TextInv
    <3> HIDE DEF c, next
    <3> QED
      BY <2>1, <2>4, <2>5, <2>9, <3>1, <3>2 DEF TextInv
  <2> QED
    BY <2>8, <2>9
<1>2. CASE UNCHANGED textVars
  BY <1>2 DEF textVars, TextInv, Current, Holds
<1> QED
  BY <1>1, <1>2

LEMMA Agreement == TextInv => ScannersAgree
<1> SUFFICES ASSUME TextInv, Read, ~Commented(static) PROVE ScannersAgree
  BY DEF ScannersAgree
<1>1. static.verdict \in {"reading", "unsafe"}
  BY DEF TextInv, StaticType, Commented
<1>2. Current = NoCharacter /\ NoCharacter \notin Characters
  BY ShellTextAssumption DEF Current, Read, TextInv
<1>3. static.verdict = "reading" => Clear(control) /\ control.quote = ControlQuote(static.quote)
  <2>1. NoCharacter \notin {Single, Double}
    BY <1>2 DEF Characters, Specials
  <2> QED
    BY <1>2, <2>1 DEF TextInv, InStep, Together, InEscape, AtQuote
<1>4. ControlKind(control) = "none" <=> Clear(control) /\ control.quote = "none"
  BY DEF ControlKind, Unsupported, Clear, TextInv, ControlType
<1>5. static.verdict = "unsafe" /\ Clear(control) => Holds(Expanding \cup {Glob, Nul})
  BY DEF TextInv, Hiding
<1>6. Static(static) <=> static.verdict = "reading" /\ static.quote = "none"
  BY DEF Static, Commented
<1>7. ControlQuote(static.quote) = "none" <=> static.quote = "none"
  BY DEF ControlQuote
<1> QED
  BY <1>1, <1>3, <1>4, <1>5, <1>6, <1>7 DEF ScannersAgree

\* Whatever the text: known words mean no operator outside quotes, and
\* without an operator only what a shell expands can hide the words.
THEOREM ScansAgree == TextSpec => []ScannersAgree
BY TextInit, TextNext, Agreement, PTL DEF TextSpec
=============================================================================

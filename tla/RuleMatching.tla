---------------------------- MODULE RuleMatching ----------------------------
(***************************************************************************)
(* When an operator's rule matches a call and which of two matching rules  *)
(* is the more specific one (mapping.py).  Texts are sequences of          *)
(* characters; fnmatch's bracket patterns are left out.                    *)
(***************************************************************************)
EXTENDS Integers, FiniteSets, SequencesExt

CONSTANTS
  Terminal,     \* the name of the terminal tool
  PathTools     \* the tools whose rules match a path

Blank == " "
Star == "*"
AnyChar == "?"

Explicit == 0    \* priorities
Generated == 1

MatchTypes == {"exact", "prefix", "glob"}

\* Whether the first i characters of pattern match the first j of value.
GlobMatches(pattern, value) ==
  LET match[i \in 0..Len(pattern), j \in 0..Len(value)] ==
        IF i = 0 THEN j = 0
        ELSE \/ pattern[i] = Star /\ (match[i - 1, j] \/ (j > 0 /\ match[i, j - 1]))
             \/ j > 0 /\ pattern[i] \in {AnyChar, value[j]} /\ match[i - 1, j - 1]
  IN match[Len(pattern), Len(value)]

Matches(rule, value) ==
  \/ rule.match_type = "exact" /\ value = rule.pattern
  \/ /\ rule.match_type = "prefix"
     /\ value = rule.pattern \/ IsPrefix(Append(rule.pattern, Blank), value)
  \/ rule.match_type = "glob" /\ GlobMatches(rule.pattern, value)

\* The words with one blank between them.
NormalizeCommand(command) ==
  LET kept == {i \in DOMAIN command :
                 \/ command[i] # Blank
                 \/ /\ i > 1 /\ command[i - 1] # Blank
                    /\ \E j \in DOMAIN command : j > i /\ command[j] # Blank}
      order == SetToSortSeq(kept, <)
  IN [k \in DOMAIN order |-> command[order[k]]]

NoField == "no field"
NoText == <<>>    \* an argument that is missing, empty or not a string

\* The text of the call the rule is matched against.
RuleValue(rule, call) ==
  CASE rule.input_field # NoField -> call.args[rule.input_field]
    [] rule.input_field = NoField /\ call.tool = Terminal -> NormalizeCommand(call.args["command"])
    [] rule.input_field = NoField /\ call.tool \in PathTools ->
         IF call.args["path"] # NoText THEN call.args["path"] ELSE call.args["file_path"]
    [] OTHER -> call.tool

\* A missing command is matched as an empty one, any other missing argument
\* matches nothing.
HasValue(rule, call) ==
  \/ rule.input_field = NoField /\ (call.tool = Terminal \/ call.tool \notin PathTools)
  \/ RuleValue(rule, call) # NoText

Applies(rule, call) ==
  /\ rule.tool = call.tool
  /\ HasValue(rule, call)
  /\ Matches(rule, RuleValue(rule, call))

-----------------------------------------------------------------------------
(* Specificity. *)

\* Where re.split cuts a pattern into tokens: an empty one at each end that
\* is blank.
TokenStarts(pattern) ==
  {i \in 1..Len(pattern) + 1 :
     i = 1 \/ (pattern[i - 1] = Blank /\ (i = Len(pattern) + 1 \/ pattern[i] # Blank))}

HasStar(pattern, start) ==
  \E j \in start..Len(pattern) : pattern[j] = Star /\ \A k \in start..j : pattern[k] # Blank

LiteralTokens(pattern) == Cardinality({i \in TokenStarts(pattern) : ~HasStar(pattern, i)})

WildcardCount(pattern) == Cardinality({i \in DOMAIN pattern : pattern[i] = Star})

MatchRank == [exact |-> 0, prefix |-> 1, glob |-> 2]

\* Mutant: fewer wildcards count before more literal tokens.
WildcardsFirst(rule) ==
  <<rule.priority, MatchRank[rule.match_type], WildcardCount(rule.pattern),
    -LiteralTokens(rule.pattern), -Len(rule.pattern)>>

\* Mutant: a generated rule competes with explicit ones by its specificity.
KeyWithoutPriority(rule) ==
  <<0, MatchRank[rule.match_type], -LiteralTokens(rule.pattern),
    WildcardCount(rule.pattern), -Len(rule.pattern)>>

SpecificityKey(rule) ==
  <<rule.priority, MatchRank[rule.match_type], -LiteralTokens(rule.pattern),
    WildcardCount(rule.pattern), -Len(rule.pattern)>>

\* The order of tuples.
Below(k, l) ==
  \E i \in 1..5 : k[i] < l[i] /\ \A j \in 1..i - 1 : k[j] = l[j]
=============================================================================

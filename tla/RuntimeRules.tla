---------------------------- MODULE RuntimeRules ----------------------------
(***************************************************************************)
(* From the configured sources to the rule of a call: parse_config and     *)
(* load_runtime_config (config.py), then _resolve_config (mapping.py).     *)
(*                                                                         *)
(* Rules and registry entries are gone through one at a time, so lists may *)
(* have any length.  A raw rule is the rule its fields spell and the set   *)
(* of its fields that are at fault.                                        *)
(***************************************************************************)
EXTENDS Discovery

CONSTANTS
  Fields,       \* arguments of calls, "command", "path" and "file_path" among them
  Setups,       \* what is configured; allowed: a registry and the opt-in for its rules
  CallSet       \* tool calls: [tool, args]

Texts == Seq(STRING)
Actions == {"read", "write", "execute", "deploy", "delete", "send"}

RuleType ==
  [tool : Texts, match_type : MatchTypes, pattern : Texts, input_field : Fields \cup {NoField},
   action : Actions, resource : Texts, priority : {Explicit, Generated}]

RuleFaults == {"object", "tool", "matchType", "pattern", "action", "resource", "inputField"}

\* header has the faults of the config's version and of its list of rules.
SetupType ==
  [header : SUBSET {"version", "rules"},
   raw : Seq([rule : RuleType, faults : SUBSET RuleFaults]),
   registry : Seq([name : Texts, tokens : Seq(STRING), description : Seq(STRING)]),
   readable : BOOLEAN,
   allowed : BOOLEAN]

ASSUME RuntimeRulesAssumption ==
  /\ Setups \subseteq SetupType
  /\ \A setup \in Setups : \A i \in DOMAIN setup.raw : setup.raw[i].rule.priority = Explicit
  /\ CallSet \subseteq [tool : Texts, args : [Fields -> Texts]]
  /\ {"command", "path", "file_path"} \subseteq Fields
  /\ NoField \notin Fields
  /\ McpTools \cup KnownTools \subseteq Texts
  /\ McpResource \in [McpTools -> Texts]
  /\ VerbFamily \in [Verbs -> Families]

VARIABLES
  setup,    \* what is configured
  phase,    \* parse, discover, ready, match, chosen; or invalid
  pos,      \* the loop's position
  errors,   \* faults and the places they were found at
  rules,    \* the snapshot
  call,     \* the call that is resolved
  best      \* the position of the most specific rule that applies so far, or 0

vars == <<setup, phase, pos, errors, rules, call, best>>

NoCall == [tool |-> <<>>]

Init ==
  /\ setup \in Setups
  /\ phase = "parse"
  /\ pos = 1
  /\ errors = {<<0, fault>> : fault \in setup.header}
  /\ rules = <<>>
  /\ call = NoCall
  /\ best = 0

-----------------------------------------------------------------------------
(* Loading. *)

\* Mutant: a rule at fault is left out and the others are used.
ParseRuleLeniently ==
  /\ phase = "parse"
  /\ pos <= Len(setup.raw)
  /\ rules' = IF setup.raw[pos].faults = {} THEN Append(rules, setup.raw[pos].rule) ELSE rules
  /\ pos' = pos + 1
  /\ UNCHANGED <<setup, phase, errors, call, best>>

\* The list of errors is one for all rules: after the first error no rule
\* is kept.
ParseRule ==
  /\ phase = "parse"
  /\ pos <= Len(setup.raw)
  /\ errors' = errors \cup {<<pos, fault>> : fault \in setup.raw[pos].faults}
  /\ rules' = IF errors' = {} THEN Append(rules, setup.raw[pos].rule) ELSE rules
  /\ pos' = pos + 1
  /\ UNCHANGED <<setup, phase, call, best>>

Reject ==
  /\ phase' = "invalid"
  /\ rules' = <<>>
  /\ UNCHANGED <<setup, pos, errors, call, best>>

RejectConfig == phase = "parse" /\ pos > Len(setup.raw) /\ errors # {} /\ Reject

Parsed == phase = "parse" /\ pos > Len(setup.raw) /\ errors = {}

IgnoreRegistry ==
  /\ Parsed
  /\ ~setup.allowed
  /\ phase' = "ready"
  /\ UNCHANGED <<setup, pos, errors, rules, call, best>>

RejectRegistry == Parsed /\ setup.allowed /\ ~setup.readable /\ Reject

ReadRegistry ==
  /\ Parsed
  /\ setup.allowed
  /\ setup.readable
  /\ pos' = 1
  /\ phase' = "discover"
  /\ UNCHANGED <<setup, errors, rules, call, best>>

DiscoverEntry ==
  /\ phase = "discover"
  /\ pos <= Len(setup.registry)
  /\ rules' = rules \o GeneratedRules(setup.registry[pos])
  /\ pos' = pos + 1
  /\ UNCHANGED <<setup, phase, errors, call, best>>

FinishDiscovery ==
  /\ phase = "discover"
  /\ pos > Len(setup.registry)
  /\ phase' = "ready"
  /\ UNCHANGED <<setup, pos, errors, rules, call, best>>

-----------------------------------------------------------------------------
(* Choosing. *)

ResolveCall ==
  /\ phase = "ready"
  /\ call' \in CallSet
  /\ pos' = 1
  /\ best' = 0
  /\ phase' = "match"
  /\ UNCHANGED <<setup, errors, rules>>

\* The first of a stable sort by specificity.
Better(i) == best = 0 \/ Below(SpecificityKey(rules[i]), SpecificityKey(rules[best]))

ConsiderRule ==
  /\ phase = "match"
  /\ pos <= Len(rules)
  /\ best' = IF Applies(rules[pos], call) /\ Better(pos) THEN pos ELSE best
  /\ pos' = pos + 1
  /\ UNCHANGED <<setup, phase, errors, rules, call>>

Choose ==
  /\ phase = "match"
  /\ pos > Len(rules)
  /\ phase' = "chosen"
  /\ UNCHANGED <<setup, pos, errors, rules, call, best>>

\* The snapshot serves the next call.
NextCall ==
  /\ phase = "chosen"
  /\ phase' = "ready"
  /\ call' = NoCall
  /\ best' = 0
  /\ UNCHANGED <<setup, pos, errors, rules>>

\* A config that was rejected serves no call.
Rejected == phase = "invalid" /\ UNCHANGED vars

Next ==
  \/ ParseRule \/ RejectConfig \/ IgnoreRegistry \/ RejectRegistry \/ ReadRegistry
  \/ DiscoverEntry \/ FinishDiscovery
  \/ ResolveCall \/ ConsiderRule \/ Choose \/ NextCall
  \/ Rejected

Spec == Init /\ [][Next]_vars

-----------------------------------------------------------------------------

TypeOK ==
  /\ setup \in SetupType
  /\ phase \in {"parse", "discover", "ready", "match", "chosen", "invalid"}
  /\ pos \in Nat \ {0}
  /\ errors \subseteq (Nat \X (RuleFaults \cup {"version", "rules"}))
  /\ rules \in Seq(RuleType)
  /\ call \in CallSet \cup {NoCall}
  /\ best \in 0..Len(rules)

Usable == phase \notin {"parse", "invalid"}

\* A config is used as a whole or not at all: the explicit rules of a usable
\* snapshot are those of the file, each of them and in the file's order, and
\* nothing in the file is at fault.
AllOrNothing ==
  Usable =>
    /\ setup.header = {} /\ \A i \in DOMAIN setup.raw : setup.raw[i].faults = {}
    /\ Len(rules) >= Len(setup.raw)
    /\ \A i \in DOMAIN setup.raw : rules[i] = setup.raw[i].rule
    /\ \A i \in DOMAIN rules : i > Len(setup.raw) => rules[i].priority = Generated

\* A generated rule needs the opt-in and an entry that speaks of one action
\* only, in its name and its description.
GeneratedIsInferred ==
  \A i \in DOMAIN rules :
    rules[i].priority = Generated =>
      /\ setup.allowed /\ setup.readable
      /\ \E j \in DOMAIN setup.registry :
           LET entry == setup.registry[j]
           IN /\ rules[i].tool = entry.name
              /\ entry.name \in McpTools \ KnownTools
              /\ \A verb \in VerbHits(entry) : VerbFamily[verb] = rules[i].action
              /\ "cannot" \notin ToSet(entry.description)

\* Explicit rules win over generated ones, even the broader ones.
ExplicitWins ==
  phase = "chosen" /\ best # 0 /\ rules[best].priority = Generated =>
    \A i \in DOMAIN setup.raw : ~Applies(setup.raw[i].rule, call)

\* What docs/configuration.md calls more specific.
MoreSpecific(r, s) ==
  LET literals(rule) == LiteralTokens(rule.pattern)
      wildcards(rule) == WildcardCount(rule.pattern)
  IN \/ r.match_type = "exact" /\ s.match_type # "exact"
     \/ r.match_type = "prefix" /\ s.match_type = "glob"
     \/ /\ r.match_type = s.match_type
        /\ \/ literals(r) > literals(s)
           \/ literals(r) = literals(s) /\ wildcards(r) < wildcards(s)
           \/ /\ literals(r) = literals(s) /\ wildcards(r) = wildcards(s)
              /\ Len(r.pattern) > Len(s.pattern)

\* A rule is chosen if one applies, no rule of its priority that applies is
\* more specific, and of equally specific ones it is the first.
MostSpecificFirst ==
  phase = "chosen" =>
    /\ best = 0 => \A i \in DOMAIN rules : ~Applies(rules[i], call)
    /\ best # 0 =>
         /\ Applies(rules[best], call)
         /\ \A i \in DOMAIN rules \ {best} :
              Applies(rules[i], call) /\ rules[i].priority = rules[best].priority =>
                \/ MoreSpecific(rules[best], rules[i])
                \/ ~MoreSpecific(rules[i], rules[best]) /\ best < i
=============================================================================

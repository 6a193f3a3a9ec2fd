------------------------- MODULE RuntimeRulesProofs -------------------------
(***************************************************************************)
(* For files, registries and patterns of any length: a config is used as a *)
(* whole or not at all, a generated rule comes from an entry that speaks   *)
(* of one action, and the rule of a call is the first of the most specific *)
(* ones that apply.                                                        *)
(***************************************************************************)
EXTENDS RuntimeRules, FiniteSetTheorems, SequenceTheorems, TLAPS

-----------------------------------------------------------------------------
(* The order of specificity keys. *)

Keys == Int \X Int \X Int \X Int \X Int

\* The order of keys, component by component.
LEMMA BelowByComponent ==
  ASSUME NEW k \in Keys, NEW l \in Keys
  PROVE  Below(k, l) <=>
           \/ k[1] < l[1]
           \/ k[1] = l[1] /\ k[2] < l[2]
           \/ k[1] = l[1] /\ k[2] = l[2] /\ k[3] < l[3]
           \/ k[1] = l[1] /\ k[2] = l[2] /\ k[3] = l[3] /\ k[4] < l[4]
           \/ k[1] = l[1] /\ k[2] = l[2] /\ k[3] = l[3] /\ k[4] = l[4] /\ k[5] < l[5]
<1> DEFINE Differ(i) == k[i] < l[i] /\ \A j \in 1..i - 1 : k[j] = l[j]
<1>1. Below(k, l) <=> \E i \in {1, 2, 3, 4, 5} : Differ(i)
  <2>1. 1..5 = {1, 2, 3, 4, 5}
    OBVIOUS
  <2> QED
    BY <2>1 DEF Below
<1>2. /\ 1..1 - 1 = {} /\ 1..2 - 1 = {1} /\ 1..3 - 1 = {1, 2}
      /\ 1..4 - 1 = {1, 2, 3} /\ 1..5 - 1 = {1, 2, 3, 4}
  OBVIOUS
<1>3. /\ Differ(1) <=> k[1] < l[1]
      /\ Differ(2) <=> k[2] < l[2] /\ k[1] = l[1]
      /\ Differ(3) <=> k[3] < l[3] /\ k[1] = l[1] /\ k[2] = l[2]
  BY <1>2
<1>4. /\ Differ(4) <=> k[4] < l[4] /\ k[1] = l[1] /\ k[2] = l[2] /\ k[3] = l[3]
      /\ Differ(5) <=> k[5] < l[5] /\ k[1] = l[1] /\ k[2] = l[2] /\ k[3] = l[3] /\ k[4] = l[4]
  BY <1>2
<1> HIDE DEF Differ
<1> QED
  BY <1>1, <1>3, <1>4

LEMMA BelowIsTransitive ==
  ASSUME NEW k \in Keys, NEW l \in Keys, NEW m \in Keys, Below(k, l), Below(l, m)
  PROVE  Below(k, m)
<1>1. /\ k[1] \in Int /\ k[2] \in Int /\ k[3] \in Int /\ k[4] \in Int /\ k[5] \in Int
      /\ l[1] \in Int /\ l[2] \in Int /\ l[3] \in Int /\ l[4] \in Int /\ l[5] \in Int
      /\ m[1] \in Int /\ m[2] \in Int /\ m[3] \in Int /\ m[4] \in Int /\ m[5] \in Int
  BY DEF Keys
<1> QED
  BY <1>1, BelowByComponent

LEMMA BelowIsTotal ==
  ASSUME NEW k \in Keys, NEW l \in Keys
  PROVE  Below(k, l) \/ k = l \/ Below(l, k)
<1>1. /\ k[1] \in Int /\ k[2] \in Int /\ k[3] \in Int /\ k[4] \in Int /\ k[5] \in Int
      /\ l[1] \in Int /\ l[2] \in Int /\ l[3] \in Int /\ l[4] \in Int /\ l[5] \in Int
  BY DEF Keys
<1>2. k[1] = l[1] /\ k[2] = l[2] /\ k[3] = l[3] /\ k[4] = l[4] /\ k[5] = l[5] => k = l
  BY DEF Keys
<1> QED
  BY <1>1, <1>2, BelowByComponent

\* The counts of a pattern are numbers.
LEMMA CountsAreNumbers ==
  ASSUME NEW pattern \in Texts
  PROVE  /\ LiteralTokens(pattern) \in Nat
         /\ WildcardCount(pattern) \in Nat
         /\ Len(pattern) \in Nat
<1>1. Len(pattern) \in Nat /\ DOMAIN pattern = 1..Len(pattern)
  BY DEF Texts
<1>2. IsFiniteSet(1..Len(pattern) + 1) /\ IsFiniteSet(1..Len(pattern))
  BY <1>1, FS_Interval
<1> DEFINE literal == {i \in TokenStarts(pattern) : ~HasStar(pattern, i)}
           stars == {i \in DOMAIN pattern : pattern[i] = Star}
<1>3. literal \in SUBSET (1..Len(pattern) + 1) /\ stars \in SUBSET (1..Len(pattern))
  BY <1>1 DEF TokenStarts
<1> HIDE DEF literal, stars
<1>4. Cardinality(literal) \in Nat /\ Cardinality(stars) \in Nat
  BY <1>2, <1>3, FS_Subset, FS_CardinalityType
<1> QED
  BY <1>1, <1>4 DEF literal, stars, LiteralTokens, WildcardCount

LEMMA KeyType ==
  ASSUME NEW rule \in RuleType
  PROVE  SpecificityKey(rule) \in Keys
<1>1. rule.priority \in Int
  BY DEF RuleType, Explicit, Generated
<1>2. MatchRank[rule.match_type] \in Int
  BY DEF RuleType, MatchTypes, MatchRank
<1>3. /\ LiteralTokens(rule.pattern) \in Nat
      /\ WildcardCount(rule.pattern) \in Nat
      /\ Len(rule.pattern) \in Nat
  BY CountsAreNumbers DEF RuleType
<1> QED
  BY <1>1, <1>2, <1>3 DEF SpecificityKey, Keys

\* A lower key is a smaller priority, or the same one and a rule that the
\* documentation calls more specific.
LEMMA BelowIsMoreSpecific ==
  ASSUME NEW r \in RuleType, NEW s \in RuleType
  PROVE  Below(SpecificityKey(r), SpecificityKey(s)) <=>
           \/ r.priority < s.priority
           \/ r.priority = s.priority /\ MoreSpecific(r, s)
<1> DEFINE k == SpecificityKey(r)
           l == SpecificityKey(s)
<1>1. k \in Keys /\ l \in Keys
  BY KeyType
<1>2. /\ k[1] = r.priority /\ k[2] = MatchRank[r.match_type] /\ k[3] = -LiteralTokens(r.pattern)
      /\ k[4] = WildcardCount(r.pattern) /\ k[5] = -Len(r.pattern)
      /\ l[1] = s.priority /\ l[2] = MatchRank[s.match_type] /\ l[3] = -LiteralTokens(s.pattern)
      /\ l[4] = WildcardCount(s.pattern) /\ l[5] = -Len(s.pattern)
  BY DEF SpecificityKey
<1>3. /\ LiteralTokens(r.pattern) \in Nat /\ LiteralTokens(s.pattern) \in Nat
      /\ WildcardCount(r.pattern) \in Nat /\ WildcardCount(s.pattern) \in Nat
      /\ Len(r.pattern) \in Nat /\ Len(s.pattern) \in Nat
  BY CountsAreNumbers DEF RuleType
<1>4. /\ MatchRank[r.match_type] < MatchRank[s.match_type] <=>
           \/ r.match_type = "exact" /\ s.match_type # "exact"
           \/ r.match_type = "prefix" /\ s.match_type = "glob"
      /\ MatchRank[r.match_type] = MatchRank[s.match_type] <=> r.match_type = s.match_type
  BY DEF MatchRank, RuleType, MatchTypes
<1> HIDE DEF k, l
<1>5. Below(k, l) <=>
        \/ r.priority < s.priority
        \/ r.priority = s.priority /\ MatchRank[r.match_type] < MatchRank[s.match_type]
        \/ /\ r.priority = s.priority /\ MatchRank[r.match_type] = MatchRank[s.match_type]
           /\ \/ LiteralTokens(r.pattern) > LiteralTokens(s.pattern)
              \/ /\ LiteralTokens(r.pattern) = LiteralTokens(s.pattern)
                 /\ WildcardCount(r.pattern) < WildcardCount(s.pattern)
              \/ /\ LiteralTokens(r.pattern) = LiteralTokens(s.pattern)
                 /\ WildcardCount(r.pattern) = WildcardCount(s.pattern)
                 /\ Len(r.pattern) > Len(s.pattern)
  BY <1>1, <1>2, <1>3, BelowByComponent
<1> QED
  BY <1>4, <1>5 DEF MoreSpecific, k, l

-----------------------------------------------------------------------------
(* Generated rules. *)

EntryType == [name : Texts, tokens : Seq(STRING), description : Seq(STRING)]

LEMMA VerbFamiliesAreFinite ==
  ASSUME NEW entry
  PROVE  VerbFamilies(entry) \subseteq Families /\ IsFiniteSet(VerbFamilies(entry))
<1>1. VerbFamilies(entry) \subseteq Families
  BY RuntimeRulesAssumption DEF VerbFamilies, VerbHits
<1>2. IsFiniteSet(Families)
  <2>1. IsFiniteSet({"read"})
    BY FS_Singleton
  <2>2. IsFiniteSet({"read"} \cup {"delete"})
    BY <2>1, FS_AddElement
  <2>3. IsFiniteSet({"read"} \cup {"delete"} \cup {"send"})
    BY <2>2, FS_AddElement
  <2>4. IsFiniteSet({"read"} \cup {"delete"} \cup {"send"} \cup {"execute"})
    BY <2>3, FS_AddElement
  <2>5. IsFiniteSet({"read"} \cup {"delete"} \cup {"send"} \cup {"execute"} \cup {"write"})
    BY <2>4, FS_AddElement
  <2>6. Families = {"read"} \cup {"delete"} \cup {"send"} \cup {"execute"} \cup {"write"}
    BY DEF Families
  <2> QED
    BY <2>5, <2>6
<1> QED
  BY <1>1, <1>2, FS_Subset

\* An inferred action is that of every verb of the entry.
LEMMA InferenceIsUnanimous ==
  ASSUME NEW entry \in EntryType, Infer(entry) \in Families
  PROVE  /\ \A verb \in VerbHits(entry) : VerbFamily[verb] = Infer(entry)
         /\ "cannot" \notin ToSet(entry.description)
<1>1. ~Unclear(entry) /\ Infer(entry) # NoInference
  BY DEF Infer, Families, Ambiguous, NoInference
<1>2. \A f, g \in VerbFamilies(entry) : f = g
  <2>1. Cardinality(VerbFamilies(entry)) \in {0, 1}
    BY <1>1, VerbFamiliesAreFinite, FS_CardinalityType DEF Unclear
  <2> QED
    BY <2>1, VerbFamiliesAreFinite, FS_EmptySet, FS_Singleton
<1>3. VerbHits(entry) # {} /\ Infer(entry) \in VerbFamilies(entry)
  <2>1. CASE entry.tokens # <<>> /\ entry.tokens[1] \in Verbs
    <3>1. Infer(entry) = VerbFamily[entry.tokens[1]]
      BY <1>1, <2>1 DEF Infer
    <3>2. entry.tokens[1] \in VerbHits(entry)
      BY <2>1 DEF VerbHits, ToSet, EntryType
    <3> QED
      BY <3>1, <3>2 DEF VerbFamilies
  <2>2. CASE ~(entry.tokens # <<>> /\ entry.tokens[1] \in Verbs)
    <3> DEFINE ranks == {i \in 1..Len(Precedence) : Precedence[i] \in VerbFamilies(entry)}
               least == CHOOSE x \in ranks : \A y \in ranks : x <= y
    <3>1. VerbHits(entry) # {}
      BY <1>1, <2>2 DEF Infer
    <3>2. ranks # {} /\ ranks \subseteq 1..5
      <4>1. PICK verb \in VerbHits(entry) : TRUE
        BY <3>1
      <4>2. VerbFamily[verb] \in VerbFamilies(entry) /\ VerbFamily[verb] \in Families
        BY <4>1, VerbFamiliesAreFinite DEF VerbFamilies
      <4> QED
        BY <4>2 DEF Families, Precedence
    <3>3. least \in ranks
      <4>1. \A x, y \in ranks : x = y
        BY <1>2, <3>2 DEF Precedence
      <4>2. \A x, y \in ranks : x <= y
        BY <3>2, <4>1
      <4> HIDE DEF ranks
      <4> QED
        BY <3>2, <4>2
    <3>4. Infer(entry) = Precedence[least]
      BY <1>1, <2>2, <3>1, <3>2 DEF Infer, SelectInSeq, Min
    <3> QED
      BY <3>1, <3>3, <3>4
  <2> QED
    BY <2>1, <2>2
<1>4. \A verb \in VerbHits(entry) : VerbFamily[verb] \in VerbFamilies(entry)
  BY DEF VerbFamilies
<1> QED
  BY <1>1, <1>2, <1>3, <1>4 DEF Unclear

\* The rule an entry gets when it gets one.
LEMMA AddedRule ==
  ASSUME NEW entry \in EntryType, NEW given \in Seq(RuleType)
  PROVE  \/ given \o GeneratedRules(entry) = given
         \/ \E rule \in RuleType :
              /\ given \o GeneratedRules(entry) = Append(given, rule)
              /\ rule.priority = Generated
              /\ rule.tool = entry.name
              /\ rule.action = Infer(entry)
              /\ Infer(entry) \in Families
              /\ entry.name \in McpTools \ KnownTools
<1>1. CASE entry.name \in McpTools \ KnownTools /\ Infer(entry) \in Families
  <2> DEFINE rule == [tool |-> entry.name, match_type |-> "exact", pattern |-> entry.name,
                      input_field |-> NoField, action |-> Infer(entry),
                      resource |-> McpResource[entry.name], priority |-> Generated]
  <2>1. rule \in RuleType
    <3>1. entry.name \in Texts /\ McpResource[entry.name] \in Texts
      BY <1>1, RuntimeRulesAssumption DEF EntryType
    <3>2. Infer(entry) \in Actions
      BY <1>1 DEF Families, Actions
    <3> QED
      BY <3>1, <3>2 DEF RuleType, MatchTypes
  <2>2. GeneratedRules(entry) = <<rule>>
    BY <1>1 DEF GeneratedRules
  <2>3. given \o <<rule>> = Append(given, rule)
    BY <2>1, AppendIsConcat
  <2>4. rule.priority = Generated /\ rule.tool = entry.name /\ rule.action = Infer(entry)
    OBVIOUS
  <2> QED
    BY <1>1, <2>1, <2>2, <2>3, <2>4
<1>2. CASE ~(entry.name \in McpTools \ KnownTools /\ Infer(entry) \in Families)
  <2>1. GeneratedRules(entry) = <<>>
    BY <1>2 DEF GeneratedRules
  <2> QED
    BY <2>1, ConcatEmptySeq
<1> QED
  BY <1>1, <1>2

-----------------------------------------------------------------------------
(* The inductive invariant. *)

Configured == setup \in Setups

\* As long as nothing is at fault, the rules so far are those of the file.
Reading ==
  phase = "parse" =>
    /\ best = 0
    /\ pos <= Len(setup.raw) + 1
    /\ errors = {} =>
         /\ setup.header = {}
         /\ Len(rules) = pos - 1
         /\ \A i \in 1..pos - 1 : setup.raw[i].faults = {} /\ rules[i] = setup.raw[i].rule

OptedIn == phase = "discover" => setup.allowed /\ setup.readable

\* Position b comes before position i in a stable sort by specificity.
SortedBefore(b, i) ==
  \/ Below(SpecificityKey(rules[b]), SpecificityKey(rules[i]))
  \/ SpecificityKey(rules[b]) = SpecificityKey(rules[i]) /\ b < i

\* best is the choice among the rules that were looked at.
Choosing ==
  phase \in {"match", "chosen"} =>
    /\ pos <= Len(rules) + 1
    /\ phase = "chosen" => pos = Len(rules) + 1
    /\ best < pos
    /\ best = 0 => \A i \in 1..pos - 1 : ~Applies(rules[i], call)
    /\ best # 0 =>
         /\ Applies(rules[best], call)
         /\ \A i \in 1..pos - 1 : Applies(rules[i], call) => i = best \/ SortedBefore(best, i)

IInv ==
  /\ TypeOK
  /\ Configured
  /\ Reading
  /\ AllOrNothing
  /\ OptedIn
  /\ GeneratedIsInferred
  /\ Choosing

RawType == [rule : RuleType, faults : SUBSET RuleFaults]

\* What the steps use of the configuration.
LEMMA ConfiguredFacts ==
  ASSUME TypeOK
  PROVE  /\ setup.raw \in Seq(RawType)
         /\ setup.registry \in Seq(EntryType)
         /\ \A i \in DOMAIN setup.raw :
              setup.raw[i].rule \in RuleType /\ setup.raw[i].faults \subseteq RuleFaults
         /\ rules \in Seq(RuleType)
         /\ pos \in Nat \ {0}
         /\ best \in 0..Len(rules)
<1>1. setup \in SetupType /\ rules \in Seq(RuleType) /\ pos \in Nat \ {0} /\ best \in 0..Len(rules)
  BY DEF TypeOK
<1>2. setup.raw \in Seq(RawType) /\ setup.registry \in Seq(EntryType)
  BY <1>1 DEF SetupType, RawType, EntryType
<1>3. ASSUME NEW i \in DOMAIN setup.raw
      PROVE  setup.raw[i].rule \in RuleType /\ setup.raw[i].faults \subseteq RuleFaults
  <2>1. setup.raw[i] \in RawType
    BY <1>2
  <2> QED
    BY <2>1 DEF RawType
<1> QED
  BY <1>1, <1>2, <1>3

LEMMA InitInvariant ==
  ASSUME Init
  PROVE  IInv
<1>1. setup \in SetupType /\ Configured
  BY RuntimeRulesAssumption DEF Init, Configured
<1>2. rules = <<>> /\ rules \in Seq(RuleType) /\ Len(rules) = 0 /\ DOMAIN rules = {}
  BY DEF Init
<1>3. errors \subseteq (Nat \X (RuleFaults \cup {"version", "rules"}))
  BY <1>1 DEF Init, SetupType
<1>4. TypeOK
  BY <1>1, <1>2, <1>3 DEF Init, TypeOK
<1>5. Reading
  <2>1. errors = {} => setup.header = {}
    BY DEF Init
  <2>2. pos = 1 /\ Len(setup.raw) \in Nat
    BY <1>4, ConfiguredFacts DEF Init
  <2> QED
    BY <1>2, <2>1, <2>2 DEF Init, Reading
<1>6. AllOrNothing /\ OptedIn /\ GeneratedIsInferred /\ Choosing
  BY <1>2 DEF Init, AllOrNothing, Usable, OptedIn, GeneratedIsInferred, Choosing
<1> QED
  BY <1>1, <1>4, <1>5, <1>6 DEF IInv

\* Types under an added rule.
LEMMA AppendRule ==
  ASSUME NEW given \in Seq(RuleType), NEW rule \in RuleType
  PROVE  /\ Append(given, rule) \in Seq(RuleType)
         /\ Len(Append(given, rule)) = Len(given) + 1
         /\ DOMAIN Append(given, rule) = 1..Len(given) + 1
         /\ DOMAIN given = 1..Len(given)
         /\ \A i \in 1..Len(given) : Append(given, rule)[i] = given[i]
         /\ Append(given, rule)[Len(given) + 1] = rule
OBVIOUS

LEMMA ParseRuleInvariant ==
  ASSUME IInv, ParseRule
  PROVE  IInv'
<1>1. /\ TypeOK /\ Configured /\ Reading /\ GeneratedIsInferred
  BY DEF IInv
<1> DEFINE raw == setup.raw[pos]
<1>2. /\ phase = "parse" /\ pos \in DOMAIN setup.raw /\ pos' = pos + 1 /\ phase' = "parse"
      /\ UNCHANGED <<setup, call, best>>
  BY <1>1, ConfiguredFacts DEF ParseRule
<1>3. raw.rule \in RuleType /\ raw.faults \subseteq RuleFaults
  BY <1>1, <1>2, ConfiguredFacts
<1>4. /\ errors' = errors \cup {<<pos, fault>> : fault \in raw.faults}
      /\ rules' = IF errors' = {} THEN Append(rules, raw.rule) ELSE rules
  BY DEF ParseRule
<1>5. errors' = {} => errors = {} /\ raw.faults = {}
  BY <1>4
<1>6. rules \in Seq(RuleType) /\ pos \in Nat \ {0} /\ Len(setup.raw) \in Nat
  BY <1>1, ConfiguredFacts
<1>7. raw.rule.priority = Explicit
  BY <1>1, <1>2, RuntimeRulesAssumption DEF Configured
<1> HIDE DEF raw
<1>8. /\ rules' \in Seq(RuleType)
      /\ Len(rules') \in {Len(rules), Len(rules) + 1}
      /\ \A i \in DOMAIN rules : i \in DOMAIN rules' /\ rules'[i] = rules[i]
      /\ \A i \in DOMAIN rules' : i \notin DOMAIN rules => rules'[i] = raw.rule
  BY <1>3, <1>4, <1>6, AppendRule
<1>9. TypeOK'
  <2>1. errors' \subseteq (Nat \X (RuleFaults \cup {"version", "rules"}))
    BY <1>1, <1>3, <1>4, <1>6 DEF TypeOK
  <2>2. best' \in 0..Len(rules')
    BY <1>1, <1>2, <1>6, <1>8 DEF TypeOK
  <2> QED
    BY <1>1, <1>2, <1>6, <1>8, <2>1, <2>2 DEF TypeOK
<1>10. Reading'
  <2>1. best' = 0 /\ pos' <= Len(setup'.raw) + 1
    BY <1>1, <1>2, <1>6 DEF Reading
  <2>2. ASSUME errors' = {}
        PROVE  /\ setup'.header = {}
               /\ Len(rules') = pos' - 1
               /\ \A i \in 1..pos' - 1 : setup'.raw[i].faults = {} /\ rules'[i] = setup'.raw[i].rule
    <3>1. /\ setup.header = {} /\ Len(rules) = pos - 1
          /\ \A i \in 1..pos - 1 : setup.raw[i].faults = {} /\ rules[i] = setup.raw[i].rule
      BY <1>1, <1>2, <1>5, <2>2 DEF Reading
    <3>2. rules' = Append(rules, raw.rule)
      BY <1>4, <2>2
    <3>3. Len(rules') = pos /\ rules'[pos] = raw.rule /\ \A i \in 1..pos - 1 : rules'[i] = rules[i]
      BY <1>3, <1>6, <3>1, <3>2, AppendRule
    <3>4. raw.faults = {} /\ raw = setup.raw[pos]
      BY <1>5, <2>2 DEF raw
    <3> QED
      BY <1>2, <1>6, <3>1, <3>3, <3>4
  <2> QED
    BY <2>1, <2>2 DEF Reading
<1>11. GeneratedIsInferred'
  <2>1. ASSUME NEW i \in DOMAIN rules', rules'[i].priority = Generated
        PROVE  i \in DOMAIN rules /\ rules'[i] = rules[i]
    BY <1>7, <1>8, <2>1 DEF Explicit, Generated
  <2> QED
    BY <1>1, <1>2, <2>1 DEF GeneratedIsInferred
<1>12. AllOrNothing' /\ OptedIn' /\ Choosing' /\ Configured'
  BY <1>1, <1>2 DEF AllOrNothing, Usable, OptedIn, Choosing, Configured
<1> QED
  BY <1>9, <1>10, <1>11, <1>12 DEF IInv

LEMMA LoadingInvariant ==
  ASSUME IInv, RejectConfig \/ RejectRegistry \/ IgnoreRegistry \/ ReadRegistry
  PROVE  IInv'
<1>1. /\ TypeOK /\ Configured /\ Reading /\ GeneratedIsInferred
  BY DEF IInv
<1>2. /\ rules \in Seq(RuleType) /\ pos \in Nat \ {0} /\ Len(setup.raw) \in Nat
      /\ DOMAIN rules = 1..Len(rules) /\ DOMAIN setup.raw = 1..Len(setup.raw) /\ Len(rules) \in Nat
  BY <1>1, ConfiguredFacts
<1>3. CASE RejectConfig \/ RejectRegistry
  <2>1. /\ phase = "parse" /\ phase' = "invalid" /\ rules' = <<>>
        /\ UNCHANGED <<setup, pos, errors, call, best>>
    BY <1>3 DEF RejectConfig, RejectRegistry, Parsed, Reject
  <2>2. best = 0 /\ Len(rules') = 0 /\ DOMAIN rules' = {} /\ rules' \in Seq(RuleType)
    BY <1>1, <2>1 DEF Reading
  <2>3. TypeOK'
    BY <1>1, <2>1, <2>2 DEF TypeOK
  <2>4. AllOrNothing' /\ Configured' /\ Reading' /\ OptedIn' /\ GeneratedIsInferred' /\ Choosing'
    BY <1>1, <2>1, <2>2
    DEF AllOrNothing, Usable, Configured, Reading, OptedIn, GeneratedIsInferred, Choosing
  <2> QED
    BY <2>3, <2>4 DEF IInv
<1>4. CASE IgnoreRegistry \/ ReadRegistry
  <2>1. /\ phase = "parse" /\ pos > Len(setup.raw) /\ errors = {}
        /\ UNCHANGED <<setup, errors, rules, call, best>>
        /\ \/ phase' = "ready" /\ pos' = pos
           \/ phase' = "discover" /\ pos' = 1 /\ setup.allowed /\ setup.readable
    BY <1>4 DEF IgnoreRegistry, ReadRegistry, Parsed
  <2>2. /\ setup.header = {}
        /\ Len(rules) = Len(setup.raw)
        /\ \A i \in DOMAIN setup.raw : setup.raw[i].faults = {} /\ rules[i] = setup.raw[i].rule
    BY <1>1, <1>2, <2>1 DEF Reading
  <2>3. AllOrNothing'
    BY <1>2, <2>1, <2>2 DEF AllOrNothing
  <2>4. TypeOK'
    BY <1>1, <2>1 DEF TypeOK
  <2>5. Configured' /\ Reading' /\ OptedIn' /\ GeneratedIsInferred' /\ Choosing'
    BY <1>1, <2>1 DEF Configured, Reading, OptedIn, GeneratedIsInferred, Choosing
  <2> QED
    BY <2>3, <2>4, <2>5 DEF IInv
<1> QED
  BY <1>3, <1>4

LEMMA DiscoverEntryInvariant ==
  ASSUME IInv, DiscoverEntry
  PROVE  IInv'
<1>1. /\ TypeOK /\ Configured /\ AllOrNothing /\ OptedIn /\ GeneratedIsInferred
  BY DEF IInv
<1> DEFINE entry == setup.registry[pos]
<1>2. /\ phase = "discover" /\ pos <= Len(setup.registry) /\ phase' = "discover" /\ pos' = pos + 1
      /\ rules' = rules \o GeneratedRules(entry)
      /\ UNCHANGED <<setup, errors, call, best>>
  BY DEF DiscoverEntry
<1>3. /\ rules \in Seq(RuleType) /\ pos \in Nat \ {0} /\ Len(setup.raw) \in Nat /\ Len(rules) \in Nat
      /\ DOMAIN rules = 1..Len(rules) /\ DOMAIN setup.raw = 1..Len(setup.raw)
      /\ setup.registry \in Seq(EntryType) /\ pos \in DOMAIN setup.registry
  BY <1>1, <1>2, ConfiguredFacts
<1>4. entry \in EntryType
  BY <1>3
<1>5. /\ setup.header = {} /\ \A i \in DOMAIN setup.raw : setup.raw[i].faults = {}
      /\ Len(rules) >= Len(setup.raw)
      /\ \A i \in DOMAIN setup.raw : rules[i] = setup.raw[i].rule
      /\ \A i \in DOMAIN rules : i > Len(setup.raw) => rules[i].priority = Generated
      /\ setup.allowed /\ setup.readable
  BY <1>1, <1>2 DEF AllOrNothing, Usable, OptedIn
<1> HIDE DEF entry
<1>6. CASE rules' = rules
  <2>1. TypeOK' /\ AllOrNothing' /\ OptedIn'
    BY <1>1, <1>2, <1>3, <1>5, <1>6 DEF TypeOK, AllOrNothing, Usable, OptedIn
  <2>2. Configured' /\ Reading' /\ GeneratedIsInferred' /\ Choosing'
    BY <1>1, <1>2, <1>6 DEF Configured, Reading, GeneratedIsInferred, Choosing
  <2> QED
    BY <2>1, <2>2 DEF IInv
<1>7. ASSUME NEW rule \in RuleType,
             rules' = Append(rules, rule),
             rule.priority = Generated, rule.tool = entry.name, rule.action = Infer(entry),
             Infer(entry) \in Families, entry.name \in McpTools \ KnownTools
      PROVE  IInv'
  <2>1. /\ rules' \in Seq(RuleType)
        /\ Len(rules') = Len(rules) + 1
        /\ DOMAIN rules' = 1..Len(rules) + 1
        /\ \A i \in DOMAIN rules : rules'[i] = rules[i]
        /\ rules'[Len(rules) + 1] = rule
    BY <1>3, <1>7, AppendRule
  <2>2. TypeOK'
    BY <1>1, <1>2, <1>3, <2>1 DEF TypeOK
  <2>3. AllOrNothing'
    BY <1>2, <1>3, <1>5, <1>7, <2>1 DEF AllOrNothing
  <2>4. GeneratedIsInferred'
    <3>1. /\ \A verb \in VerbHits(entry) : VerbFamily[verb] = rule.action
          /\ "cannot" \notin ToSet(entry.description)
      BY <1>4, <1>7, InferenceIsUnanimous
    <3> QED
      BY <1>1, <1>2, <1>3, <1>5, <1>7, <2>1, <3>1 DEF GeneratedIsInferred, entry
  <2>5. Configured' /\ Reading' /\ OptedIn' /\ Choosing'
    BY <1>1, <1>2, <1>5 DEF Configured, Reading, OptedIn, Choosing
  <2> QED
    BY <2>2, <2>3, <2>4, <2>5 DEF IInv
<1> QED
  BY <1>2, <1>3, <1>4, <1>6, <1>7, AddedRule

\* A rule that takes the place of the best one comes before all those seen.
LEMMA ConsiderRuleKeepsOrder ==
  ASSUME IInv, ConsiderRule
  PROVE  Choosing'
<1>1. TypeOK /\ Choosing
  BY DEF IInv
<1>2. /\ phase = "match" /\ pos <= Len(rules) /\ phase' = "match" /\ pos' = pos + 1
      /\ UNCHANGED <<setup, errors, rules, call>>
      /\ best' = IF Applies(rules[pos], call) /\ Better(pos) THEN pos ELSE best
  BY DEF ConsiderRule
<1>3. /\ rules \in Seq(RuleType) /\ pos \in Nat \ {0} /\ best \in 0..Len(rules)
      /\ Len(rules) \in Nat /\ pos \in 1..Len(rules)
  BY <1>1, <1>2, ConfiguredFacts
<1>4. /\ best < pos
      /\ best = 0 => \A i \in 1..pos - 1 : ~Applies(rules[i], call)
      /\ best # 0 =>
           /\ Applies(rules[best], call)
           /\ \A i \in 1..pos - 1 : Applies(rules[i], call) => i = best \/ SortedBefore(best, i)
  BY <1>1, <1>2 DEF Choosing
<1> DEFINE key(i) == SpecificityKey(rules[i])
<1>5. \A i \in 1..Len(rules) : key(i) \in Keys
  BY <1>3, KeyType
<1> HIDE DEF key
<1>6. SUFFICES /\ best' = 0 => \A i \in 1..pos : ~Applies(rules[i], call)
               /\ best' # 0 =>
                    /\ Applies(rules[best'], call)
                    /\ \A i \in 1..pos : Applies(rules[i], call) => i = best' \/ SortedBefore(best', i)
               /\ best' <= pos
  BY <1>2, <1>3 DEF Choosing, SortedBefore
<1>7. CASE Applies(rules[pos], call) /\ Better(pos)
  <2>1. best' = pos
    BY <1>2, <1>7
  <2>2. ASSUME NEW i \in 1..pos - 1, Applies(rules[i], call)
        PROVE  SortedBefore(pos, i)
    <3>1. best # 0 /\ best \in 1..Len(rules) /\ i \in 1..Len(rules)
      BY <1>3, <1>4, <2>2
    <3>2. Below(key(pos), key(best))
      BY <1>7, <3>1 DEF Better, key
    <3>3. i = best \/ Below(key(best), key(i)) \/ key(best) = key(i)
      BY <1>4, <2>2, <3>1 DEF SortedBefore, key
    <3>4. Below(key(pos), key(i))
      BY <1>3, <1>5, <3>1, <3>2, <3>3, BelowIsTransitive
    <3> QED
      BY <3>4 DEF SortedBefore, key
  <2> QED
    BY <1>3, <1>7, <2>1, <2>2
<1>8. CASE Applies(rules[pos], call) /\ ~Better(pos)
  <2>1. best' = best /\ best # 0 /\ best \in 1..Len(rules)
    BY <1>2, <1>3, <1>8 DEF Better
  <2>2. ~Below(key(pos), key(best))
    BY <1>8 DEF Better, key
  <2>3. Below(key(best), key(pos)) \/ key(best) = key(pos)
    BY <1>3, <1>5, <2>1, <2>2, BelowIsTotal
  <2>4. SortedBefore(best, pos)
    BY <1>4, <2>3 DEF SortedBefore, key
  <2> QED
    BY <1>3, <1>4, <2>1, <2>4
<1>9. CASE ~Applies(rules[pos], call)
  BY <1>2, <1>3, <1>4, <1>9
<1> QED
  BY <1>7, <1>8, <1>9

LEMMA ResolvingInvariant ==
  ASSUME IInv, FinishDiscovery \/ ResolveCall \/ ConsiderRule \/ Choose \/ NextCall
  PROVE  IInv'
<1>1. /\ TypeOK /\ Configured /\ AllOrNothing /\ GeneratedIsInferred /\ Choosing
      /\ rules \in Seq(RuleType) /\ pos \in Nat \ {0} /\ best \in 0..Len(rules) /\ Len(rules) \in Nat
  BY ConfiguredFacts DEF IInv
<1>2. /\ UNCHANGED <<setup, errors, rules>>
      /\ phase \in {"discover", "ready", "match", "chosen"}
      /\ phase' \in {"ready", "match", "chosen"}
      /\ pos' \in {pos, 1, pos + 1}
      /\ call' \in CallSet \cup {NoCall, call}
      /\ best' \in {best, 0, pos}
      /\ best' = pos => pos <= Len(rules) \/ best' = best \/ best' = 0
  BY DEF FinishDiscovery, ResolveCall, ConsiderRule, Choose, NextCall
<1>3. TypeOK'
  BY <1>1, <1>2 DEF TypeOK
<1>4. AllOrNothing' /\ GeneratedIsInferred' /\ Configured' /\ Reading' /\ OptedIn'
  BY <1>1, <1>2 DEF AllOrNothing, Usable, GeneratedIsInferred, Configured, Reading, OptedIn
<1>5. Choosing'
  <2>1. CASE FinishDiscovery \/ NextCall
    BY <2>1 DEF FinishDiscovery, NextCall, Choosing
  <2>2. CASE ResolveCall
    BY <1>1, <2>2 DEF ResolveCall, Choosing
  <2>3. CASE ConsiderRule
    BY <2>3, ConsiderRuleKeepsOrder
  <2>4. CASE Choose
    BY <1>1, <2>4 DEF Choose, Choosing, SortedBefore
  <2> QED
    BY <2>1, <2>2, <2>3, <2>4
<1> QED
  BY <1>3, <1>4, <1>5 DEF IInv

LEMMA StutterInvariant ==
  ASSUME IInv, UNCHANGED vars
  PROVE  IInv'
BY DEF IInv, vars, TypeOK, Configured, Reading, AllOrNothing, Usable, OptedIn, GeneratedIsInferred,
       Choosing, SortedBefore

LEMMA Invariance == Spec => []IInv
<1>1. Init => IInv
  BY InitInvariant
<1>2. IInv /\ [Next]_vars => IInv'
  BY ParseRuleInvariant, LoadingInvariant, DiscoverEntryInvariant, ResolvingInvariant,
     StutterInvariant DEF Next, Rejected
<1> QED
  BY <1>1, <1>2, PTL DEF Spec

-----------------------------------------------------------------------------
(* The properties. *)

\* Type correctness: what becomes a rule has a v1 action and a tool, however
\* it was obtained.
THEOREM TypeCorrect == Spec => []TypeOK
<1>1. IInv => TypeOK
  BY DEF IInv
<1> QED
  BY <1>1, Invariance, PTL

\* parse_config uses a file of any length as a whole or not at all.
THEOREM WholeFile == Spec => []AllOrNothing
<1>1. IInv => AllOrNothing
  BY DEF IInv
<1> QED
  BY <1>1, Invariance, PTL

\* A rule of a registry of any length needs the opt-in and an entry whose
\* name and description speak of its action only.
THEOREM NoGuessedRule == Spec => []GeneratedIsInferred
<1>1. IInv => GeneratedIsInferred
  BY DEF IInv
<1> QED
  BY <1>1, Invariance, PTL

\* sorted(candidates, key=_specificity_key)[0] is the rule the documentation
\* describes, for any rules and patterns.
THEOREM Choice == Spec => []MostSpecificFirst
<1>1. ASSUME IInv, phase = "chosen" PROVE MostSpecificFirst
  <2>1. /\ pos = Len(rules) + 1 /\ rules \in Seq(RuleType) /\ best \in 0..Len(rules)
        /\ Len(rules) \in Nat /\ DOMAIN rules = 1..Len(rules)
    BY <1>1, ConfiguredFacts DEF IInv, Choosing
  <2>2. /\ best = 0 => \A i \in DOMAIN rules : ~Applies(rules[i], call)
        /\ best # 0 =>
             /\ Applies(rules[best], call)
             /\ \A i \in DOMAIN rules : Applies(rules[i], call) => i = best \/ SortedBefore(best, i)
    BY <1>1, <2>1 DEF IInv, Choosing
  <2>3. ASSUME best # 0, NEW i \in DOMAIN rules \ {best},
               Applies(rules[i], call), rules[i].priority = rules[best].priority
        PROVE  \/ MoreSpecific(rules[best], rules[i])
               \/ ~MoreSpecific(rules[i], rules[best]) /\ best < i
    <3>1. rules[best] \in RuleType /\ rules[i] \in RuleType
      BY <2>1, <2>3
    <3>2. SortedBefore(best, i)
      BY <2>2, <2>3
    <3>3. CASE Below(SpecificityKey(rules[best]), SpecificityKey(rules[i]))
      BY <2>3, <3>1, <3>3, BelowIsMoreSpecific DEF RuleType, Explicit, Generated
    <3>4. CASE SpecificityKey(rules[best]) = SpecificityKey(rules[i]) /\ best < i
      <4>1. ~Below(SpecificityKey(rules[i]), SpecificityKey(rules[best]))
        BY <3>1, <3>4, KeyType, BelowByComponent DEF Keys
      <4> QED
        BY <2>3, <3>1, <3>4, <4>1, BelowIsMoreSpecific
    <3> QED
      BY <3>2, <3>3, <3>4 DEF SortedBefore
  <2> QED
    BY <2>2, <2>3 DEF MostSpecificFirst
<1>2. IInv => MostSpecificFirst
  BY <1>1 DEF MostSpecificFirst
<1> QED
  BY <1>2, Invariance, PTL

\* A generated rule is chosen only when no rule of the operator's applies.
THEOREM OperatorFirst == Spec => []ExplicitWins
<1>1. ASSUME IInv, phase = "chosen", best # 0, rules[best].priority = Generated,
             NEW i \in DOMAIN setup.raw, Applies(setup.raw[i].rule, call)
      PROVE  FALSE
  <2>1. /\ pos = Len(rules) + 1 /\ rules \in Seq(RuleType) /\ best \in 1..Len(rules)
        /\ Len(rules) \in Nat /\ DOMAIN rules = 1..Len(rules)
    BY <1>1, ConfiguredFacts DEF IInv, Choosing
  <2>2. i \in DOMAIN rules /\ rules[i] = setup.raw[i].rule
    BY <1>1, <2>1, ConfiguredFacts DEF IInv, AllOrNothing, Usable
  <2>3. rules[i].priority = Explicit
    BY <1>1, <2>2, RuntimeRulesAssumption DEF IInv, Configured
  <2>4. rules[best] \in RuleType /\ rules[i] \in RuleType
    BY <2>1, <2>2
  <2>5. i # best /\ SortedBefore(best, i)
    BY <1>1, <2>1, <2>2, <2>3 DEF IInv, Choosing, Explicit, Generated
  <2>6. SpecificityKey(rules[best]) # SpecificityKey(rules[i])
    BY <1>1, <2>3 DEF SpecificityKey, Explicit, Generated
  <2> QED
    BY <1>1, <2>3, <2>4, <2>5, <2>6, BelowIsMoreSpecific DEF SortedBefore, Explicit, Generated
<1>2. IInv => ExplicitWins
  BY <1>1 DEF ExplicitWins
<1> QED
  BY <1>2, Invariance, PTL
=============================================================================

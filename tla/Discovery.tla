----------------------------- MODULE Discovery -----------------------------
(***************************************************************************)
(* Which rule a tool of an MCP registry gets (mcp_discovery.py).           *)
(***************************************************************************)
EXTENDS RuleMatching

CONSTANTS
  McpTools,     \* names of the form of an MCP tool's
  KnownTools,   \* those the classifiers have a table for
  McpResource,  \* "mcp/<server>/<tool>" for each of them
  Verbs,        \* the verbs of the five families
  VerbFamily    \* and the action of each verb's family

NoName == <<>>
Families == {"read", "delete", "send", "execute", "write"}

NoInference == "could_not_infer_action"
Ambiguous == "ambiguous_action"

\* An entry has a name, the name's tokens and the description's.
VerbHits(entry) == (ToSet(entry.tokens) \cup ToSet(entry.description)) \cap Verbs

VerbFamilies(entry) == {VerbFamily[verb] : verb \in VerbHits(entry)}

\* Mutant: only the name's verbs have to agree.
UnclearName(entry) ==
  Cardinality({VerbFamily[verb] : verb \in ToSet(entry.tokens) \cap Verbs}) > 1

\* Verbs of two families, or a description that says what a tool cannot do,
\* are left to the operator.
Unclear(entry) ==
  \/ Cardinality(VerbFamilies(entry)) > 1
  \/ "cannot" \in ToSet(entry.description) /\ VerbHits(entry) # {}

Precedence == <<"delete", "send", "execute", "write", "read">>

Infer(entry) ==
  IF Unclear(entry) THEN Ambiguous
  ELSE IF entry.tokens # <<>> /\ entry.tokens[1] \in Verbs THEN VerbFamily[entry.tokens[1]]
  ELSE IF VerbHits(entry) # {}
    THEN Precedence[SelectInSeq(Precedence, LAMBDA family : family \in VerbFamilies(entry))]
  ELSE NoInference

\* Mutant: what could not be inferred becomes the rule's action.
GeneratedAlways(entry) ==
  IF entry.name \in McpTools \ KnownTools
    THEN <<[tool |-> entry.name, match_type |-> "exact", pattern |-> entry.name,
            input_field |-> NoField, action |-> Infer(entry), resource |-> McpResource[entry.name],
            priority |-> Generated]>>
    ELSE <<>>

\* The rules an entry adds: one, or none.
GeneratedRules(entry) ==
  IF entry.name \in McpTools \ KnownTools /\ Infer(entry) \in Families
    THEN <<[tool |-> entry.name, match_type |-> "exact", pattern |-> entry.name,
            input_field |-> NoField, action |-> Infer(entry), resource |-> McpResource[entry.name],
            priority |-> Generated]>>
    ELSE <<>>
=============================================================================

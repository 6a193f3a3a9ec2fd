\* Short config files and registries, sound and faulty, and calls of every
\* kind of tool.
CONSTANTS
  Terminal <- MCTerminal
  PathTools <- MCPathTools
  McpTools <- MCMcpTools
  KnownTools <- MCKnownTools
  McpResource <- MCMcpResource
  Verbs <- MCVerbs
  VerbFamily <- MCVerbFamily
  Fields <- MCFields
  Setups <- MCSetups
  CallSet <- MCCallSet
  MaxRules = 3
SPECIFICATION Spec
INVARIANTS TypeOK AllOrNothing GeneratedIsInferred ExplicitWins MostSpecificFirst

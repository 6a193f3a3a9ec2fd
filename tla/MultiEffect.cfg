\* Every file over paths of up to four names, every call of several effects
\* over five paths, and every request of one effect, with and without a rule.
CONSTANTS
  Absent = Absent
  Nul = Nul
  Lower <- MCLower
  EnvNames <- MCEnvNames
  AppNames <- MCAppNames
  HostOf <- MCHostOf
  InvalidUrls <- MCInvalidUrls
  InternalHosts <- MCInternalHosts
  Identifier <- MCIdentifier
  Texts <- MCTexts
  Segments <- MCSegments
  Paths <- MCPaths
  Rules <- MCRules
  Calls <- MCCalls
  MaxNames = 4
  MaxTargets = 3
SPECIFICATION Spec
INVARIANTS TypeOK EveryEffectCharged RuleSubtractsNothing RefusalStands AskedOnce PrimaryPair FileIsCharged ChangesNameTheirTarget InternalIsVisible

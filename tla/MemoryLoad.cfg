CONSTANTS
  Pages <- MCPages
  Zeros = "zeros"
  Entry <- MCEntry
  Descriptions <- MCDescriptions
  Dumps <- MCDumps
  NULL = NULL
SPECIFICATION ReleasesSpec
INVARIANTS TypeOK OwnsItsBlock CleansUp LoadsTheDescription SameLoads
PROPERTY LoadReturns

CONSTANTS
  Pages <- MCPages
  Zeros = "zeros"
  Entry <- MCEntry
  Descriptions <- MCDescriptions
  Dumps <- MCDumps
  NULL = NULL
SPECIFICATION ReleasesSpec
INVARIANT ErrorMeansNull

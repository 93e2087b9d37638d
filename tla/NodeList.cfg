CONSTANTS
  Nodes = {n1, n2, n3, n4, n5}
  Values = {7, 8}
  NULL = NULL
SPECIFICATION ReleasesSpec
INVARIANTS SameBothWays NothingLeaks SameList
PROPERTY IsDeque

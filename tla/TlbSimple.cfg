CONSTANTS
  TLB_LINES = 3
  Pages = {0, 1, 2, 3, 4}
  Frames <- MCFrames
  PageTable <- MCPageTable
  Nodes = {n0, n1, n2}
  NULL = NULL
SPECIFICATION ReleasesSpec
INVARIANTS TypeOK SameTlb
PROPERTIES TlbIsLru SearchIsCorrect

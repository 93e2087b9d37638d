CONSTANTS
  L1_LINES = 2
  L1_WAYS = 2
  L2_LINES = 4
  L2_WAYS = 2
  WORDS_PER_LINE = 1
  WORD_BYTES = 1
  Blocks = {1, 3, 5, 9}
  StoreBlocks = {}
  Accesses = {"DATA"}
  Flushes = {}
  Byte <- MCByte
  WriteWords <- MCNoWord
  WriteBytes = {}
  InitialMemory <- MCInitialMemory
SPECIFICATION Spec
INVARIANT Exclusive

CONSTANTS
  L1_LINES = 2
  L1_WAYS = 2
  L2_LINES = 4
  L2_WAYS = 2
  WORDS_PER_LINE = 1
  WORD_BYTES = 2
  Blocks = {1, 5, 9, 13, 17}
  StoreBlocks = {5, 9}
  Accesses = {"DATA"}
  Flushes = {"L2_CACHE"}
  Byte <- MCByte
  WriteWords <- MCFreshWord
  WriteBytes = {100}
  InitialMemory <- MCInitialMemory
SPECIFICATION ClientSpec
INVARIANT Exclusive
PROPERTY ActsAsFlatMemory

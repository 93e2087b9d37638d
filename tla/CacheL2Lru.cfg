CONSTANTS
  L1_LINES = 2
  L1_WAYS = 1
  L2_LINES = 4
  L2_WAYS = 3
  WORDS_PER_LINE = 1
  WORD_BYTES = 1
  Blocks = {1, 3, 5, 9, 13, 17}
  StoreBlocks = {}
  Accesses = {"DATA"}
  Flushes = {}
  Byte <- MCByte
  WriteWords <- MCNoWord
  WriteBytes = {}
  InitialMemory <- MCInitialMemory
SPECIFICATION HistorySpec
PROPERTY L2EvictsLru

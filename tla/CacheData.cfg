CONSTANTS
  L1_LINES = 2
  L1_WAYS = 2
  L2_LINES = 4
  L2_WAYS = 2
  WORDS_PER_LINE = 1
  WORD_BYTES = 2
  Blocks = {1, 5, 9, 3}
  StoreBlocks = {1, 5, 3}
  Accesses = {"DATA"}
  Flushes = {"DATA"}
  Byte <- MCByte
  WriteWords <- MCFreshWord
  WriteBytes = {}
  InitialMemory <- MCInitialMemory
SPECIFICATION Spec
INVARIANTS TypeOK L1LruStacks
PROPERTIES VictimsGoToL2 OnlyVictimsEnterL2 StoreThenLoad L1IsLru

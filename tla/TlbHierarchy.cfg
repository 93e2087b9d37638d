CONSTANTS
  PGD_ENTRY = 2
  PUD_ENTRY = 2
  PMD_ENTRY = 2
  PTE_ENTRY = 2
  PAGE_OFFSET = 1
  VirtualAddresses <- MCAddresses
  Memory <- MCMemory
  Words <- MCWords
  Pages <- MCPages
  Frames <- MCFrames
  PageTable <- MCPageTable
  Flushes = {"INSTRUCTION", "DATA"}
SPECIFICATION AccessSpec
INVARIANTS TypeOK TranslationsAgree Inclusion SameAnswers AddressesAreTranslated
PROPERTIES SearchIsCorrect OtherTlbKept

CONSTANTS
  START_COMMANDS_ALLOCATED = 1
  Commands <- MCReadCommands
  MaxLines = 4
  Unwritten = Unwritten
  Malformed = Malformed
  Files <- MCFiles
  WORD_VALUES = 65536
  PastBuffer <- MCPastBuffer
  Texts <- MCTexts
SPECIFICATION ReleasesSpec
INVARIANTS TypeOK ListingFits NothingSkipped ClosesFile ActsAsProjet02 ReadsWhatItPrints
PROPERTIES IsCommandList AllReturn ReadsTheFile AgreesWithProjet01

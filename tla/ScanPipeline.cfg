\* Scenarios for each part of the command, one repeated scan and one repeated
\* migration.
SPECIFICATION Spec
CONSTANTS
  Texts <- MCTexts
  Phrases <- MCPhrases
  Bounded <- MCBounded
  Inside <- MCInside
  Spaced <- MCSpaced
  Blank = ""
  VideoIds = {}
  Topics <- MCTopics
  Scholars <- MCScholars
  Fold <- MCFold
  Width <- MCWidth
  NoCap = NoCap
  Neutral = Neutral
  Unreadable = Unreadable
  NotGiven = NotGiven
  NoSelectors = NoSelectors
  Embedded <- MCEmbedded
  StampTime = 8
  MaxMigrations = 1
  Scenarios <- MCScenarios
  MaxGlobalCandidates = 3
  ScanTime = 10
  MaxScans = 1
INVARIANTS
  OkMeansAllStored
  ExitTellsWhatHappened
  CreditedOnce
  LaureatesLiftRank
  ShownInFull
PROPERTIES
  CopyIsAtomic
  HistoryKept
CHECK_DEADLOCK FALSE

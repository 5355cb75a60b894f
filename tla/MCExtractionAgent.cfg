CONSTANTS
  RegexResults <- MCRegexResults
  GeminiResults <- MCGeminiResults
  Rankings <- MCRankings
  Writings <- MCWritings
  Picks <- MCPicks
  NoHsn = NoHsn
  MaxTurns = 3
  MaxCalls = 2
SPECIFICATION FairSpec
CHECK_DEADLOCK FALSE
INVARIANTS
  TypeOK
  NothingSeenIsLost
  HsnWasOffered
  SecondPassKeepsFirst
  ResultsAreExtractions
  SecondPassHasDoubt
  SecondPassLowersByNewFields
  AgentInv
PROPERTIES
  RunEnds

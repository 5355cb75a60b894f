CONSTANTS
  Job = {1, 2, 3, 4}
  NoJob = 0
  Mine = {1, 2, 4}
  Texts = {1, 2, 3}
  Extraction <- MCExtraction
  Client = {c}
  Plans <- MCPlans
  Limits = {1, 2}
  ReviewLimit = 2
SPECIFICATION FairSpec
CHECK_DEADLOCK FALSE
INVARIANTS
  TypeOK
  WalksListOnce
  SteadyProductsAreListed
  ReviewThenCompletedSeesAll
  PolledOutcomesHold
  PolledReviewsAreQueued
PROPERTIES
  WalksEnd

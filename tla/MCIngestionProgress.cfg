CONSTANTS
  Request = {r1, r2}
  NoJob = NoJob
  Calls <- MCCallsAndNoKey
  NoKey = "none"
  Extraction <- MCExtractionTriage
  Faults = {"image_rejected", "agent_raises", "unconvertible"}
  Repaired = {"entry_point", "redis_settings", "hooks", "cron", "cutoff"}
  MaxJobs = 1
SPECIFICATION FairSpec
CHECK_DEADLOCK FALSE
INVARIANTS
  JobsAreAccountedFor
  FlaggedTextsAreBorderline
PROPERTIES
  ReplaysCreateNothing
  CallsAreAnswered
  AcceptedJobsSettle

CONSTANTS
  Request = {r1, r2}
  NoJob = NoJob
  Calls <- MCImageCalls
  NoKey = "none"
  Extraction <- MCExtraction
  Faults = {"unstorable"}
  Repaired = {"entry_point", "redis_settings", "hooks", "cron", "cutoff"}
  MaxJobs = 2
SPECIFICATION Spec
CHECK_DEADLOCK FALSE
INVARIANT
  ExceptionsMarkFailed

CONSTANTS
  Request = {r1, r2}
  NoJob = NoJob
  Calls <- MCImageCalls
  NoKey = "none"
  Extraction <- MCExtraction
  Faults = {"job_timeout"}
  Repaired = {"entry_point", "redis_settings", "hooks", "cron", "cutoff"}
  MaxJobs = 2
SPECIFICATION FairSpec
CHECK_DEADLOCK FALSE
PROPERTY
  OrphansAreSwept

CONSTANTS
  Request = {r1, r2}
  NoJob = NoJob
  Calls <- MCImageCalls
  NoKey = "none"
  Extraction <- MCExtraction
  Faults = {"redis_down"}
  Repaired = {}
  MaxJobs = 2
SPECIFICATION Spec
CHECK_DEADLOCK FALSE
INVARIANT
  AcceptedJobsAreScheduled

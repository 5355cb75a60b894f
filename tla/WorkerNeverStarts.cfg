CONSTANTS
  Request = {r1, r2}
  NoJob = NoJob
  Calls <- MCImageCalls
  NoKey = "none"
  Extraction <- MCExtraction
  Faults = {}
  Repaired = {}
  MaxJobs = 2
SPECIFICATION FairSpec
CHECK_DEADLOCK FALSE
PROPERTY
  AcceptedJobsSettle

CONSTANTS
  Request = {r1, r2, r3}
  NoJob = NoJob
  Calls <- MCCalls
  NoKey = "none"
  Extraction <- MCExtraction
  Faults = {"image_rejected", "agent_raises", "unconvertible", "unstorable", "redis_down", "refresh_fails", "api_abort", "worker_lost", "job_timeout", "job_expired"}
  Repaired = {"entry_point", "redis_settings", "hooks", "cron", "cutoff"}
  MaxJobs = 2
SPECIFICATION Spec
SYMMETRY MCSymmetry
CHECK_DEADLOCK FALSE
INVARIANTS
  TypeOK
  CatalogueMatchesStatus
  AnswersAreTrue
  ReviewItemsMatchStatus
  JobsAreAccountedFor
  PipelineInv
PROPERTIES
  OutcomesAreFinal
  StrandedJobsStay
  ImplementsContract

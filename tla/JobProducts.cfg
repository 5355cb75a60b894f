CONSTANTS
  Job = {1, 2}
  NoJob = 0
  Mine = {1, 2}
  Texts = {1}
  Extraction <- MCExtraction
  Client = {c}
  Plans <- MCPollers
  Limits = {1}
  ReviewLimit = 1
SPECIFICATION FairSpec
CHECK_DEADLOCK FALSE
PROPERTY
  JobProductsAsDocumented

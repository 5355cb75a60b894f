CONSTANTS
  Request = {r1, r2}
  Calls <- MCResolves
  Editable <- MCEditable
  Value = {"none", "", "g", "kg", "Amul", "bad"}
  None = "none"
  Falsy = {"none", ""}
  Unstorable <- MCUnstorable
  Owner = "t1"
  Ingested = Ingested
  Products <- MCProducts
  OverallConfidences = {600}
  NoRow = NoRow
  Faults = {}
SPECIFICATION FairSpec
CHECK_DEADLOCK FALSE
PROPERTY
  ResolvedItemsLeaveQueue

CONSTANTS
  Request = {r1, r2, r3}
  Calls <- MCCalls
  Editable <- MCEditable
  Value = {"none", "", "g", "kg", "Amul", "bad"}
  None = "none"
  Falsy = {"none", ""}
  Unstorable <- MCUnstorable
  Owner = "t1"
  Ingested = Ingested
  Products <- MCProducts
  OverallConfidences = {600}
  NoRow = NoRow
  Faults = {"api_abort", "answer_lost"}
SPECIFICATION FairSpec
CHECK_DEADLOCK FALSE
INVARIANTS
  TypeOK
  SerialisedEditsAgree
  DuplicatesAreConfirmations
  HumanValuesWereAsked
  DeadlocksNeedConfirmations
PROPERTIES
  HumanEditsStay
  ImplementsEditContract
  EditsEnd

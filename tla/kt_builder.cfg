SPECIFICATION Spec
CONSTANTS
  Outputs = {"o1", "o2"}
  Builds = {1, 2}
  Requests <- MCRequests
  None = None
  MaxId = 3
  Faults = {"exit", "throw", "death", "twice", "unset", "plan", "deps", "sink", "temp"}
INVARIANTS
  TypeOK
  TryCleansUp
  RecordedWasSent
PROPERTIES
  ImplementsService
  Answered
CHECK_DEADLOCK FALSE

SPECIFICATION Spec
CONSTANTS
  Classes = {"A", "B"}
  MaxRequests = 2
INVARIANTS
  TypeOK
  QuietEndCleansUp
  NormalEndStopsCompiler
PROPERTIES
  TerminationEnds
CHECK_DEADLOCK FALSE

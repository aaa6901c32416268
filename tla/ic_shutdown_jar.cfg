SPECIFICATION Spec
CONSTANTS
  Classes = {"A", "B"}
  MaxRequests = 2
INVARIANTS
  CompleteJars
CHECK_DEADLOCK FALSE

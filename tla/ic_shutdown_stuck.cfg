SPECIFICATION Spec
CONSTANTS
  Classes = {"A", "B"}
  MaxRequests = 2
PROPERTIES
  HookFinishes
CHECK_DEADLOCK FALSE

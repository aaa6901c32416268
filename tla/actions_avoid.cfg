SPECIFICATION Spec
CONSTANTS
  Targets = {"lib", "mid", "app"}
  Graphs <- MCGraphs
  MaxEdits = 2
  None = None
INVARIANTS
  TypeOK
  Current
  JavaHeadersComplete
PROPERTIES
  BodyEditsStayLocal
CHECK_DEADLOCK FALSE

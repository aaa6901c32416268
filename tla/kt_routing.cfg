SPECIFICATION Spec
CONSTANTS
  Requests <- MCRequests
  Longs = {"--release"}
  AOptions <- MCAOptions
  Xplugin <- MCXplugin
  KspJars = {"ksp.jar"}
  BuiltinFor <- MCBuiltinFor
  Unlisted = "jdk"
  None = None
INVARIANTS
  TypeOK
  DeclaredMade
  PluginsOnce
  NothingLost
  StrictDeps
CHECK_DEADLOCK FALSE

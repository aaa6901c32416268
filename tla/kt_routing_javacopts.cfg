SPECIFICATION Spec
CONSTANTS
  Requests <- MCReleases
  Longs = {"--release"}
  AOptions <- MCAOptions
  Xplugin <- MCXplugin
  KspJars = {"ksp.jar"}
  BuiltinFor <- MCBuiltinFor
  Unlisted = "jdk"
  None = None
INVARIANTS
  RetainsSettings
CHECK_DEADLOCK FALSE

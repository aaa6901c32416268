SPECIFICATION Spec
CONSTANTS
  Keys = {"linux", "mac", "win"}
  Platforms = {"linux", "win"}
  Windows = {"win"}
  Versions <- MCVersions
  Pinned <- MCPinned
  Overlays <- MCOverlays
  RepoPrefixes = {"elide", "ours", "theirs", "mine"}
  ModuleLists <- MCModuleLists
  None = None
INVARIANTS
  TypeOK
  ToolchainsHaveRepos
  HighestInstalled
  PythonForAll
  RootDecides
  ReadyToRun
CHECK_DEADLOCK FALSE

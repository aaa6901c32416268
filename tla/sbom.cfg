SPECIFICATION Spec
CONSTANTS
  Names = {"rules_java", "rules-java", "platforms", "stardoc"}
  SafeNames = {"rules-java", "platforms", "stardoc"}
  Sanitize <- MCSanitize
  Versions = {"1", "2"}
  ScanWords = {"DOCUMENT", "root", "file"}
  Scans <- MCScans
  Modules <- MCModules
  None = None
  Torn = Torn
INVARIANTS
  TypeOK
  PublishedIsExact
  ScanKept
  IdsUnique
PROPERTY RerunChangesNothing

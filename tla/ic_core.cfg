SPECIFICATION FairSpec
CONSTANTS
  o1 = o1
  o2 = o2
  s1 = s1
  s2 = s2
  jar = jar
  plugin = plugin
  plain = plain
  friends = friends
  Outputs = {o1, o2}
  NoOutput = NoOutput
  Sources = {s1, s2}
  Jars = {jar}
  Others = {plugin}
  Digests = {1, 2}
  NoDigest = NoDigest
  Options = {plain, friends}
  Conservative = {friends}
  Ids = {0, 1}
  Requests <- MCRequests
  None = None
  Torn = Torn
  Faults = {"mktemp", "mkdirs", "exit", "death", "badid", "pack", "remove"}
  Malformed = Malformed
  EndOfInput = EndOfInput
  MaxDepth = 2
  MaxMessage = 130
  Samples <- MCSamples
  Lengths <- MCLengths
  Texts <- MCTexts
  RequestIds <- MCRequestIds
INVARIANTS
  TypeOK
  KeptTogether
  SuccessIsClean
  NoStateWithoutCompiler
  ParsesLegalMessages
  FramesKeptApart
  RewritingKeepsRest
  ErrorsCarryTheirId
PROPERTIES
  ImplementsService
  Answered
CHECK_DEADLOCK TRUE

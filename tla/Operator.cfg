\* A client of any identity writes into a scene whose declared inputs come and go.
SPECIFICATION FairSpec
CONSTANTS
  Id = scene1
  SceneIds = {scene1}
  Sessions = {s1}
  Identities <- MCIdentities
  Nobody = nobody
  Specs <- MCSpecs
  PatchLists <- MCPatchLists
  AppPatches <- MCAppPatches
  Paths <- MCPaths
  Values <- MCValues
  NoValue = blank
  NoLimit = nolimit
  NoPath = nopath
  QueueMax = 1
  ReplayMax = 1
  MaxAsked = 2
  MaxLog = 3
CHECK_DEADLOCK FALSE
INVARIANTS
  TypeOK
  AllOrNothing
  Confined
  AnsweredOnce
  OnlyErrorsOvertake
PROPERTIES
  Settles

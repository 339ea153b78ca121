\* Plans of two scenarios, of which the second begins as if it were the first.
SPECIFICATION FairSpec
CONSTANTS
  Hashes = {"sha256:0"}
  NoLimit = NoLimit
  Plans <- MCPlans
  SkipNames = {"excluded"}
  TagFilter = "required"
  TokenOf <- MCTokenOf
  RoleOf <- MCRoleOf
  Leaves = {"__inputs.a", "show"}
  Segments <- MCSegments
  LeafValues = {}
  Missing <- MCMissing
  SceneNames = {}
  ZeroHash <- MCZeroHash
  QueueMax = 4
  ReplayMax = 4
CHECK_DEADLOCK FALSE
INVARIANTS
  TypeOK
  PassIsEarned
  ShadowIsPast
  FailsOnlyIfLate
  HashesTell
PROPERTY
  RunsToEnd

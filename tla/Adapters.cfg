\* Two upstreams that fail and recover, with and without a transform.
SPECIFICATION FairSpec
CONSTANTS
  Documents <- MCDocuments
  Flattened <- MCFlattened
  Leaves <- MCLeaves
  Custom <- MCCustom
  Paths <- MCPaths
  Values = {}
  NoValue <- MCNoValue
  SceneIds = {}
  QueueMax = 1
  ReplayMax = 1
  MaxSent = 2
CHECK_DEADLOCK FALSE
INVARIANTS
  SaysTheDocument
  RelaysInOrder
PROPERTY
  KeepsUp

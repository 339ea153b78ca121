\* One session under the event loop's fairness; no symmetry with liveness.
SPECIFICATION FairSpec
CONSTANTS
  Names = {a, b}
  SceneIds = {o1, o2}
  Sessions = {s1}
  NoScene = none
  NoName = noname
  NoValue = blank
  Paths = {p1}
  Values = {v1}
  QueueMax = 2
  ReplayMax = 2
  MaxSeq = 2
CHECK_DEADLOCK FALSE
PROPERTIES
  GoneIsDetached
  ResetEndsWriter

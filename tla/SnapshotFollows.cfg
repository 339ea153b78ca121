\* A live session whose queue has one place left when the scene changes: refuted.
SPECIFICATION Spec
CONSTANTS
  Names = {a, b}
  SceneIds = {o1, o2}
  Sessions = {s1}
  NoScene = none
  NoName = noname
  NoValue = blank
  Paths = {p1}
  Values = {v1}
  QueueMax = 2
  ReplayMax = 2
  MaxSeq = 2
SYMMETRY Symmetry
CHECK_DEADLOCK FALSE
INVARIANT SnapshotFollows

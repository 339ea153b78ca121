\* A pipe that overflowed is refreshed by a snapshot: refuted.
SPECIFICATION FairSpec
CONSTANTS
  Clients = {c1}
  Paths = {p1}
  Values = {v1}
  NoValue = none
  SceneIds = {scene1}
  Id = scene1
  QueueMax = 1
  ReplayMax = 1
  MaxLog = 4
PROPERTY BackPressureSnapshot

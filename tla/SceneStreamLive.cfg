\* Two receivers on one scene, under the fairness of the event loop.
SPECIFICATION FairSpec
CONSTANTS
  Clients = {c1, c2}
  Paths = {p1}
  Values = {v1, v2}
  NoValue = none
  SceneIds = {scene1}
  Id = scene1
  QueueMax = 1
  ReplayMax = 1
  MaxLog = 4
PROPERTY Converges

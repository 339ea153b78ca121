\* One receiver, every kind of change, a queue and a ring that both overflow.
SPECIFICATION Spec
CONSTANTS
  Clients = {c1}
  Paths = {p1, p2}
  Values = {v1, v2}
  NoValue = none
  SceneIds = {scene1}
  Id = scene1
  QueueMax = 2
  ReplayMax = 2
  MaxLog = 5
SYMMETRY Symmetry
INVARIANTS
  TypeOK
  WrongOnlyIfOwed
  NothingLost
  ExactlyOnce
  DrainedIsCurrent
  ResumeComplete
PROPERTIES
  NeverBackwards
  ImplementsMirror

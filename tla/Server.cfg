\* Two names, three scene objects: replaced, activated and reset around sessions.
SPECIFICATION Spec
CONSTANTS
  Names = {a, b}
  SceneIds = {o1, o2, o3}
  Sessions = {s1}
  NoScene = none
  NoName = noname
  NoValue = blank
  Paths = {p1}
  Values = {v1}
  QueueMax = 2
  ReplayMax = 2
  MaxSeq = 2
SYMMETRY Symmetry
CHECK_DEADLOCK FALSE
INVARIANTS
  TypeOK
  OneOwner
  LiveOnActive
  InStep
  NoGhosts

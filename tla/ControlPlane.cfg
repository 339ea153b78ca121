\* Scenarios set up and reset one after the other around a session.
SPECIFICATION CPSpec
CONSTANTS
  Names = {a, b}
  SceneIds = {o1, o2, o3, o4}
  Sessions = {s1}
  Tokens = {t1, t2}
  NoRole = norole
  BadBundle = bad
  NoScene = none
  NoName = noname
  NoValue = blank
  Paths = {p1}
  Values = {v1}
  QueueMax = 2
  ReplayMax = 1
  MaxSeq = 2
  MaxBundles = 2
  MaxScenario = 2
SYMMETRY Symmetry
CHECK_DEADLOCK FALSE
INVARIANTS
  CPTypeOK
  OldAreDetached
  Isolated
  Authorised

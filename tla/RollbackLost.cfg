\* Two updates, one after the other, the second of which fails.
CONSTANTS
  Sessions = {u1, u2}
  NoFile = NoFile
  Releases = {0, 1, 2}
  Broken = {2}
  Nothing = Nothing
SPECIFICATION LifecycleSpec
INVARIANT RollbackRetained
CHECK_DEADLOCK FALSE

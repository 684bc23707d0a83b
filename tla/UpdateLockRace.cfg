\* Two sessions that start at any time; a file that is not yet written is stale.
CONSTANTS
  Sessions = {u1, u2}
  NoFile = NoFile
SPECIFICATION LockSpec
INVARIANT MutualExclusion
CHECK_DEADLOCK FALSE

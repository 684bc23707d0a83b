\* Three ids that aliases may move into one another, scans that commit out of
\* clock order, tombstones that expire.
CONSTANTS
  EventIds = {e1, e2, e3}
  Sources = {s1}
  Media = {}
  Livestreams = {}
  Talks = {}
  People = {}
  Bodies = {1}
  Time = {0, 1, 2}
  RetentionDays = 1
  InOrder = FALSE
  Absent = Absent
SPECIFICATION Spec
INVARIANTS NoLiveTombstone
PROPERTIES RowsLeaveWithATrace FirstSeenNeverMovesLater FirstSeenIsInherited
SYMMETRY Symmetry
CHECK_DEADLOCK FALSE

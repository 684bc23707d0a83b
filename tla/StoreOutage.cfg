\* One event, two sources, every pattern of outages between scans.
CONSTANTS
  EventIds = {e1}
  Sources = {s1, s2}
  Media = {m1}
  Livestreams = {}
  Talks = {}
  People = {}
  Bodies = {1}
  Time = {0, 1, 2, 3}
  RetentionDays = 2
  InOrder = TRUE
  Absent = Absent
SPECIFICATION Spec
INVARIANTS CancelledOnlyOnCompleteScan MediaAdditionsAlternate
PROPERTIES OutageKeepsEvidence RetentionIsExact
SYMMETRY Symmetry
CHECK_DEADLOCK FALSE

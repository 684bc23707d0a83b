\* Two processes that update or uninstall; release 2 does not run.
CONSTANTS
  Sessions = {u1, u2}
  NoFile = NoFile
  Releases = {0, 1, 2}
  Broken = {2}
  Nothing = Nothing
SPECIFICATION LifecycleSpec
INVARIANTS OneAtATime  RefusedOnlyByHolder CurrentUsable RecoveryPathExists
PROPERTIES SessionsEnd
CHECK_DEADLOCK FALSE

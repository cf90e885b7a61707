SPECIFICATION Spec
CONSTANTS
  Owners = {i1, i2, i3, i4}
  Nobody = nobody
  NoFile = nofile
CHECK_DEADLOCK FALSE
INVARIANTS
  TypeOK
  DeadMeansDead
  OneTerminalOutcome
  NoLockLeaks
PROPERTIES
  LiveRunKeepsDirectory

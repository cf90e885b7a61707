SPECIFICATION Spec
CONSTANTS
  Owners = {i1, i2, i3}
  Nobody = nobody
  NoFile = nofile
CHECK_DEADLOCK FALSE
PROPERTY HeldMeansAlive

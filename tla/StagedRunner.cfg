SPECIFICATION FairSpec
CONSTANT Platforms = {"posix", "windows"}
CHECK_DEADLOCK FALSE
INVARIANTS
  TypeOK
  SuccessIsEarned
  NoSurvivor
  KilledTreeIsGone
PROPERTY RunReturns

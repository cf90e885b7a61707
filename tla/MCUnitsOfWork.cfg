SPECIFICATION UnitsSpec
CONSTANTS
  Proposals = {p1}
  Bindings = {b1}
  NoBinding = nob
  Operators = {op1}
  NoOperator = noop
  Owners = {o1}
  NoOwner = noowner
  TTL = 1
  MaxTime = 1
  MaxTrail = 2
  Sessions = {s1, s2}
  NoUnit = nounit
  NoView = noview
  MaxSearches = 1
SYMMETRY Symmetry
INVARIANTS
  UnitsTypeOK
  ApprovalSpentWithToken
  StartPairedWithConsumption
  TrailWellFounded
  RecoveryNeverSecond
  TrailComplete
PROPERTIES
  ImplementsLedger

SPECIFICATION GateSpec
CONSTANTS
  Proposals = {p1}
  b1 = b1
  b2 = b2
  s1 = s1
  s2 = s2
  op1 = op1
  op2 = op2
  Bindings = {b1, b2}
  NoBinding = nob
  Operators = {op1, op2}
  NoOperator = noop
  Owners = {i1, i2}
  NoOwner = noowner
  TTL = 1
  MaxTime = 1
  Calls = {c1, c2}
  Scripts = {s1, s2}
  ScriptOf <- MCScriptOf
  Configs <- MCConfigs
SYMMETRY Symmetry
INVARIANTS
  GateTypeOK
  EffectJustified
  DispatchAuthorized
  ResultMatchesTrail
PROPERTIES
  ImplementsLedger
  ImplementsLifecycle

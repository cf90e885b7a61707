SPECIFICATION FairTransportSpec
CONSTANTS
  p1 = p1
  p2 = p2
  Proposals = {p1, p2}
  Bindings = {b1}
  NoBinding = nob
  Operators = {op1}
  NoOperator = noop
  Owners = {o1}
  NoOwner = noowner
  TTL = 1
  MaxTime = 1
  MaxParts = 2
  PartLimit = 2
  BodyLength <- MCFullAndOneMore
  MaxPresses = 2
  MaxFaults = 1
PROPERTIES
  PressesDecided
  ButtonArrives

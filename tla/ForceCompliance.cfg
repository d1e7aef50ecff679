SPECIFICATION Spec
CONSTANTS
  MaxForce = 4
  Ceiling = 3
  MaxStep = 1
  FixedDeadband = 1
  Margin = 1
  RampCycles = 2
  MaxSpeed = 2
  MaxAccel = 1
  ModeRequests <- SomeModes
  None = None
INVARIANTS
  ComplianceTypeOK
  LawRestsWithOutput
  RampBeforeMotion
  DeadbandIsOwn

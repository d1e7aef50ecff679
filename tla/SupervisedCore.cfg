SPECIFICATION CallSpec
INVARIANTS
  FaultDemandsRestart
  ServoingIsHealthy
  MaskedFaultIsResidue
PROPERTIES
  FaultLatches
  KeepsContract

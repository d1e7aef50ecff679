SPECIFICATION Spec
CONSTANTS
  MaxMisses = 2
  MaxRequests = 1
  ModeRequests <- HandoverModeRequests
  ManagerSwitches <- HandoverSwitches
INVARIANTS
  CorrectionHasOwner
  CoreMatchesProfile

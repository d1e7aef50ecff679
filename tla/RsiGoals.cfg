SPECIFICATION FairSpec
CONSTANTS
  MaxMisses = 1
  MaxRequests = 2
  ModeRequests <- DirectModeRequests
  ManagerSwitches <- CorrectionSwitches
INVARIANTS
  RsiTypeOK
PROPERTIES
  ConvergedIsOwn
  GoalAnswered

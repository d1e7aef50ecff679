SPECIFICATION Spec
CONSTANTS
  NPoses = 1
  SamplesPerPose = 1
  MinPoses = 1
  EkiFeeds <- SessionEki
  RsiFeeds <- SessionRsi
  SriFeeds <- OnlyTrue
  Silent = {"rsi"}
  Commands = {"start", "stop", "reset", "zero", "calibrate"}
  ServoModes = {"COMPLIANCE"}
  Failing = {"switch", "list", "rsi_reset", "start_rsi", "get_tool"}
  Hasty = {"zero", "reset"}
INVARIANTS
  TypeOK
  ServoDrivesItsController
  NoForgottenController
  ZeroMeetsOnlyFreshRequests
  CalibrationMeetsServoEntangled
  NoOrphanCalibration
PROPERTIES
  KeepsContract

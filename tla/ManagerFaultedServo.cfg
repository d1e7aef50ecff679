SPECIFICATION Spec
CONSTANTS
  NPoses = 1
  SamplesPerPose = 1
  MinPoses = 1
  EkiFeeds <- SteadyEki
  RsiFeeds <- ServoRsi
  SriFeeds <- OnlyTrue
  Silent = {}
  Commands = {"start", "reset"}
  ServoModes = {"COMPLIANCE"}
  Failing = {}
  Hasty = {}
INVARIANTS
  ReadyOutputsZero

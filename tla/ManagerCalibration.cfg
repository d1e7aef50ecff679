SPECIFICATION FairSpec
CONSTANTS
  NPoses = 2
  SamplesPerPose = 1
  MinPoses = 2
  EkiFeeds <- FaultyEki
  RsiFeeds <- SteadyRsi
  SriFeeds <- OnlyTrue
  Silent = {"sri"}
  Commands = {"calibrate", "cancel", "start", "stop"}
  ServoModes = {"DIRECT"}
  Failing = {"switch", "list", "apply"}
  Hasty = {}
INVARIANTS
  PayloadMatchesVerdict
PROPERTIES
  NothingHangs

SPECIFICATION FairRunSpec
CONSTANTS
  NPoses = 8
  SamplesPerPose = 3
  MinPoses = 4
  StaleResults = FALSE
INVARIANTS
  RunTypeOK
  SamplesAtGoal
  FitBeforeReturn
PROPERTIES
  FollowsPlan
  RunEnds

SPECIFICATION RunSpec
CONSTANTS
  NPoses = 4
  SamplesPerPose = 2
  MinPoses = 4
  StaleResults = TRUE
INVARIANTS
  SamplesAtGoal

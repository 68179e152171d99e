SPECIFICATION FairSpec
CONSTANTS
  Configs <- MCOneSeed
  Golden <- MCGoldenOne
  Commands <- MCResumeOnly
  Fsync = TRUE
  PowerLoss = TRUE
  RemoveFails = FALSE
  MaxCrashes = 2
INVARIANTS
  CheckpointCovered
PROPERTIES
  CommittedNeverLost
  Finishes
CHECK_DEADLOCK FALSE

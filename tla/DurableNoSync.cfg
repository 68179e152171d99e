SPECIFICATION Spec
CONSTANTS
  Configs <- MCShortSeed
  Golden <- MCGoldenShort
  Commands <- MCEither
  Fsync = FALSE
  PowerLoss = TRUE
  RemoveFails = TRUE
  MaxCrashes = 2
INVARIANTS
  LedgerExact
CHECK_DEADLOCK FALSE

SPECIFICATION Spec
CONSTANTS
  Configs <- MCTwoSeeds
  Golden <- MCGoldenTwo
  Commands <- MCShared
  Fsync = FALSE
  PowerLoss = FALSE
  RemoveFails = FALSE
  MaxCrashes = 3
INVARIANTS
  ControlExact
  LedgerExact
  JournalIsLedger
PROPERTIES
  ForeignRunUntouched
  ImplementsRecoverableRun
CHECK_DEADLOCK FALSE

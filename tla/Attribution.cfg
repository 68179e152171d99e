SPECIFICATION Spec
CONSTANTS
  hub = hub
  f1 = f1
  f2 = f2
  s1 = s1
  s2 = s2
  s3 = s3
  s4 = s4
  s5 = s5
  s6 = s6
  Account <- MCAccount
  Ledgers <- MCLedgers
  Transfers <- MCTransfers
  Gaps <- MCGaps
  MaxRecords = 4
  Adversaries <- MCAdversaries
  Windows <- MCWindows
  Folds = 4
  MinOperators = 4
  MinPositivePairs = 1
  Scores = {0, 1, 2}
  Threshold = 2
INVARIANTS
  ClustersAreEvidence
  GroupsAreComponents
  MetricCountsPairs
  FeaturesShowEvidence
  BlindToOperators
  ScoredOnce
  AucCountsWins
CHECK_DEADLOCK FALSE

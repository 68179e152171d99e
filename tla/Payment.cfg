SPECIFICATION PaymentSpec
CONSTANTS
  Precision = 8
  MaxExponent = 10
  Tables <- MCTables
  Amounts <- MCAmounts
  Policies <- MCPolicies
  Shares <- MCShares
  Checked = TRUE
INVARIANTS
  ChosenByWeight
  SplitIsExact
CHECK_DEADLOCK FALSE

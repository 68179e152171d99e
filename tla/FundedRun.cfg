SPECIFICATION Spec
CONSTANTS
  Configs <- MCConfigs
  Delays <- MCDelays
  Draws <- MCDraws
  Leads <- MCLeads
  Analyst <- MCAnalyst
INVARIANTS
  ObservableOrder
  RetiredStaysRetired
  ActiveAccountsDistinct
  FeePayersThrownAway
  FundedOnceBeforeUse
  MetricSeesFunding
  FundersGiveAway
PROPERTIES
  LogicalTimeMonotone
CHECK_DEADLOCK FALSE

SPECIFICATION Spec
CONSTANTS
  Actions <- MCActions
  StakeMinimum = 2
  Rent = 2
  Balance = 9
  MaxTotalDebit = 8
  MaxFeePayerTopup = 6
  StatusPolls = 3
  ResendEvery = 2
  Rates = {1, 2}
  Window = 1
  MaxHeight = 3
  MaxSpends = 1
INVARIANTS
  AtMostOneEffect
  FundedBeforeAction
  ReceiptIsTrue
  TopupSuffices
  DebitWithinQuote
PROPERTIES
  Returns
CHECK_DEADLOCK FALSE

CONSTANTS
  None = None
  first = first
  second = second
  Withdrawals = {first, second}
  Amount <- MCAmount
  Funds = 2
  Verdicts <- MCVerdicts
  MaxCrashes = 1
SPECIFICATION FairSpec
INVARIANTS
  TypeOK
  DebitMeansAccepted
  PaidWasCovered
  AnswersAreOwn
  TableOfWaiting
PROPERTIES
  StaysWithinWallet
  HoldsSettle
CHECK_DEADLOCK FALSE

CONSTANTS
  withdrawal = withdrawal
  tip = tip
  deposit = deposit
  junk = junk
  odd = odd
  None = None
  Cmds = {withdrawal, tip}
  Rows = {withdrawal, tip}
  Kind <- MCKind
  Sessions = {s1, s2}
  Sweepers = {s1, s2}
  Attempts = 2
  BatchSize = 1
  BrokerFails = TRUE
  Lossy = TRUE
  MaxCrashes = 1
  MaxRedeliveries = 1
SYMMETRY Symmetry
SPECIFICATION Spec
INVARIANTS
  TypeOK
  OutcomeRecorded
  FailureReported
  PublishedTruthful
CHECK_DEADLOCK FALSE

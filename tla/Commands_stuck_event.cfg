CONSTANTS
  withdrawal = withdrawal
  tip = tip
  deposit = deposit
  junk = junk
  odd = odd
  None = None
  Cmds = {withdrawal}
  Rows = {withdrawal}
  Kind <- MCKind
  Sessions = {s1, s2}
  Sweepers = {s1, s2}
  Attempts = 2
  BatchSize = 1
  BrokerFails = FALSE
  Lossy = FALSE
  MaxCrashes = 1
  MaxRedeliveries = 0
SPECIFICATION FairSpec
PROPERTIES
  OutboxDrains
CHECK_DEADLOCK FALSE

CONSTANTS
  withdrawal = withdrawal
  tip = tip
  deposit = deposit
  junk = junk
  odd = odd
  None = None
  Cmds = {tip, deposit, junk, odd}
  Rows = {tip, deposit, junk, odd}
  Kind <- MCKind
  Sessions = {s1, s2}
  Sweepers = {s1, s2}
  Attempts = 2
  BatchSize = 4
  BrokerFails = FALSE
  Lossy = FALSE
  MaxCrashes = 0
  MaxRedeliveries = 1
SPECIFICATION FairSpec
INVARIANTS
  PaysOnce
PROPERTIES
  OutboxDrains
CHECK_DEADLOCK FALSE

CONSTANTS
  older = older
  newer = newer
  withdrawal = withdrawal
  a1 = a1
  a2 = a2
  None = None
  Invoices = {older, withdrawal}
  Incoming = {older}
  Age <- MCAge
  Rows <- MCRows
  Sweepers <- MCSweepers
  Accounts = {a1, a2}
  BatchSize = 1
  JobBatch = 1
  BrokerFails = TRUE
  NotifiesOutgoing = FALSE
  MaxFaults = 2
SPECIFICATION FairDSpec
INVARIANTS
  DTypeOK
  CreditedWasPaid
  PaidHasEvent
PROPERTIES
  DepositIsCredited

CONSTANTS
  user = user
  application = application
  t1 = t1
  t2 = t2
  h1 = h1
  h2 = h2
  None = None
  Accounts = {user, application}
  Txns = {t1, t2}
  Holds = {h1, h2}
  Requests = {one, other}
  one = one
  other = other
  Id <- MCId
  Legs <- MCLegs
  HoldAccount <- MCHoldAccount
  Expiry <- MCExpiry
  Batch = 2
SPECIFICATION FairSpec
INVARIANTS
  OrderedNeverDeadlock
PROPERTIES
  DueHoldsEnd
CHECK_DEADLOCK FALSE

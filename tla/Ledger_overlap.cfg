CONSTANTS
  alice = alice
  house = house
  user = user
  inv = inv
  pay = pay
  None = None
  Accounts = {alice, house}
  Users = {user}
  References = {inv, pay}
  Txns = {t1, t2}
  Holds = {h1, h2}
  Sessions = {s1, s2}
  Keys = {}
  Owner <- MCOwner
  Payloads <- FewPayloads
  HoldRequests <- MCHoldRequests
  Events <- MCEvents
  Overlap = TRUE
  Checks = TRUE
SPECIFICATION FairSpec
INVARIANTS
  AppliedOnce
PROPERTIES
  DueHoldsFreedUnlessStale
CHECK_DEADLOCK FALSE

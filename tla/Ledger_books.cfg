CONSTANTS
  alice = alice
  house = house
  user = user
  inv = inv
  pay = pay
  None = None
  Accounts = {alice, house}
  Users = {user}
  References = {inv, pay}
  Txns = {t1, t2, t3}
  Holds = {h1, h2}
  Sessions = {s1}
  Keys = {k1}
  Owner <- MCOwner
  Payloads <- MCPayloads
  HoldRequests <- MCHoldRequests
  Events <- MCEvents
  Overlap = FALSE
  Checks = FALSE
SYMMETRY Symmetry
SPECIFICATION Spec
INVARIANTS
  TypeOK
  BooksBalance
  ReservedMatchesHolds
  FundsCoverHolds
  AppliedTransfersBalance
  ReplaysTruthful
  ReversalsPaired
PROPERTIES
  ImplementsWallet
  HoldsSettleOnce
  HistoryAppendOnly
CHECK_DEADLOCK FALSE

CONSTANTS
  None = None
  Amount = 3
  Tasks = {one}
  MaxBalance = 4
  one = one
  other = other
SPECIFICATION ASpec
INVARIANTS
  ATypeOK
  FundedOnce
  SettledIsPaid
  CanceledGivesBack
  TakenInOrder
PROPERTIES
  DisabledGetsNothingNew
CHECK_DEADLOCK FALSE

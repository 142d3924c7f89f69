CONSTANTS
  None = None
  Amount = 2
  Tasks = {one, other}
  MaxBalance = 3
  one = one
  other = other
SPECIFICATION Spec
INVARIANTS
  FundedOnce
CHECK_DEADLOCK FALSE

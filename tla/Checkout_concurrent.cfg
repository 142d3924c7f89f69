CONSTANTS
  None = None
  Amount = 2
  Tasks = {one, other}
  MaxBalance = 2
  one = one
  other = other
SYMMETRY Symmetry
SPECIFICATION Spec
PROPERTIES
  CreatedOnce
  StaysWithinWallet
CHECK_DEADLOCK FALSE

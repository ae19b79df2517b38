SPECIFICATION FairSpec
CONSTANTS
  x = x
  y = y
  result = result
  Register <- MCRegister
  Methods <- MCMethods
INVARIANTS
  Fixpoint
  DefUseExact
PROPERTY Terminates
CHECK_DEADLOCK FALSE

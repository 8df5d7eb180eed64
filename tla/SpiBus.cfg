SPECIFICATION Spec
CONSTANTS
  Devs = {d1, d2}
  Max = 2
  MaxLen = 5
INVARIANTS
  
  MovedInFull
  

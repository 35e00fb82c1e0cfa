SPECIFICATION Spec
CONSTANTS
  Values <- MCValues
  MaxCap = 4
INVARIANTS
  AlwaysErased

SPECIFICATION Spec
CONSTANTS
  Values <- MCValues
  MaxCap = 4
PROPERTIES
  ImplementsContract
  ErasedUnlessKnown
  PinnedUnlessKnown

SPECIFICATION Spec
CONSTANTS
  Arrays = {a1, a2}
  Handles = {h1, h2, h3, h4}
  Blocks = {b1, b2}
  None = None
SYMMETRY Symmetry
INVARIANTS
  AccessMatchesHandles
  HandlesUsable
  OneOwner

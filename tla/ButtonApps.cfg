CONSTANTS
  Bits = 4
  MaxHeld = 2
SPECIFICATION Spec
INVARIANTS Inv ActsOncePerPress
PROPERTY InputsAreHeeded


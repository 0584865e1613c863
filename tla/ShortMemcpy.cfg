CONSTANTS
  Sizes <- MCSizes
  Offsets <- MCOffsets
SPECIFICATION Spec
INVARIANTS CopiesExactly UnitsAreAligned
CHECK_DEADLOCK FALSE

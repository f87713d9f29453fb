SPECIFICATION Spec
CONSTANTS
  s1 = s1
  s2 = s2
  s3 = s3
  Players <- TwoSeats
  FIRST_SEAT = s3
  WINDOW = 2
  LagAllowed = TRUE
  DupAllowed = FALSE
  MaxFrame = 4
SYMMETRY Symmetry
INVARIANTS
  InStep

SPECIFICATION Spec
CONSTANTS
  s1 = s1
  s2 = s2
  s3 = s3
  Players <- TwoSeats
  FIRST_SEAT = s3
  WINDOW = 2
  LagAllowed = FALSE
  DupAllowed = FALSE
  MaxFrame = 4
SYMMETRY Symmetry
INVARIANTS
  TypeOK
  FramesNumbered
  AckNotAhead
  InStep
  OneAnswerPerFrame
PROPERTIES
  KeepsLockstep

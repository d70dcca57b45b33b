\* What omc prints when two calls overlap.
SPECIFICATION Spec
CONSTANTS
  r1 = r1
  r2 = r2
  ball = ball
  ballMSL = ballMSL
  motor = motor
  Ball = Ball
  Motor = Motor
  None = None
  Sources <- MCSources
  Names <- MCNames
  ModelOf <- MCModelOf
  UsesMSL <- MCUsesMSL
  NTU = 2
  NAssets = 2
  Runs <- MCRuns
  Overlap = TRUE
INVARIANTS OutputShown
CHECK_DEADLOCK FALSE

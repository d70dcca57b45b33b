\* A second run is started by Ctrl+Enter.
SPECIFICATION PlaySpec
CONSTANTS
  r1 = r1
  r2 = r2
  r3 = r3
  ballMSL = ballMSL
  ball = ball
  motor = motor
  Ball = Ball
  Motor = Motor
  None = None
  Runs <- MCRuns
  Sources <- MCSources
  Names <- MCNames
  ModelOf <- MCModelOf
  UsesMSL <- MCUsesMSL
  NTU = 1
  NAssets = 1
  Overlap = TRUE
  Shortcut = TRUE
  PickBusy = FALSE
PROPERTIES BlameRight
CHECK_DEADLOCK FALSE

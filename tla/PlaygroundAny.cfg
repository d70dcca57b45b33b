\* A user who presses and picks at any time, browser and worker being fair.
SPECIFICATION PlayFairSpec
CONSTANTS
  r1 = r1
  r2 = r2
  r3 = r3
  ballMSL = ballMSL
  ball = ball
  motor = motor
  Ball = Ball
  Motor = Motor
  None = None
  Runs <- MCRuns
  Sources <- MCSources
  Names <- MCNames
  ModelOf <- MCModelOf
  UsesMSL <- MCUsesMSL
  NTU = 1
  NAssets = 1
  Overlap = TRUE
  Shortcut = TRUE
  PickBusy = TRUE
INVARIANTS PlottedOwnSource
PROPERTIES RunningEnds
CHECK_DEADLOCK FALSE

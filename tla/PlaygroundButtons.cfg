\* Three runs started by the button, examples picked between runs.
SPECIFICATION PlaySpec
CONSTANTS
  r1 = r1
  r2 = r2
  r3 = r3
  ballMSL = ballMSL
  ball = ball
  motor = motor
  Ball = Ball
  Motor = Motor
  None = None
  Runs <- MCRuns3
  Sources <- MCSources3
  Names <- MCNames
  ModelOf <- MCModelOf3
  UsesMSL <- MCUsesMSL3
  NTU = 1
  NAssets = 1
  Overlap = TRUE
  Shortcut = FALSE
  PickBusy = FALSE
SYMMETRY Symmetry3
INVARIANTS PlayTypeOK RunsApart ShownIsOneRun LabelMatches SoloProvenance
PROPERTIES BlameRight
CHECK_DEADLOCK FALSE

\* Two calls that may overlap in any way, downloads and worker being fair.
SPECIFICATION FairSpec
CONSTANTS
  r1 = r1
  r2 = r2
  ball = ball
  ballMSL = ballMSL
  motor = motor
  Ball = Ball
  Motor = Motor
  None = None
  Sources <- MCSources
  Names <- MCNames
  ModelOf <- MCModelOf
  UsesMSL <- MCUsesMSL
  NTU = 2
  NAssets = 2
  Runs <- MCRuns
  Overlap = TRUE
INVARIANTS TypeOK SoloProvenance SoloLog OneGeneration StagedBeforeUse SinkOwned UrlsReleased
PROPERTIES AbsSpec RunSettles
CHECK_DEADLOCK FALSE

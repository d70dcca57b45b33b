\* The buttons pressed in any order; every handler ends.
SPECIFICATION FairSpec
CONSTANTS
  c1 = c1
  c2 = c2
  ball = ball
  motor = motor
  Ball = Ball
  Motor = Motor
  None = None
  Calls <- MCCalls
  Sources <- MCSources
  Names <- MCNames
  ModelOf <- MCModelOf
INVARIANTS TypeOK CompileAlone CompiledOfBuild CompileUsable ResultOfBuild SavedUnderItsName
PROPERTIES Unblocked
CHECK_DEADLOCK FALSE

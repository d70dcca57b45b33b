\* Build is pressed while a run loads.
SPECIFICATION Spec
CONSTANTS
  c1 = c1
  c2 = c2
  ball = ball
  motor = motor
  Ball = Ball
  Motor = Motor
  None = None
  Calls <- MCCalls
  Sources <- MCSources
  Names <- MCNames
  ModelOf <- MCModelOf
INVARIANTS SupportFilesMatch
CHECK_DEADLOCK FALSE

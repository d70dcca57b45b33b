\* The bounds are explained part by part in the README.  strtokIncludingDelimiters stands
\* still at MaxToks, where an empty delimiter would go on for ever.
SPECIFICATION PartsSpec
CONSTANTS
  Dirs = 2
  PerDir = 2
  None = None
  Layouts <- MCLayouts
  Results <- MCResults
  Units = {8}
  Time = "time"
  Vars = {"time", "x", "der(x)", "der(y)", "p"}
  Ders = {"der(x)", "der(y)"}
  Levels <- MCLevels
  Points = {0, 1, 3}
  Slots = 2
  Indices <- MCIndices
  Values = {0, 1, 3}
  Reserves <- MCReserves
  MaxTick = 5
  Chars = {"a", "b", "m"}
  Strings <- MCStrings
  Seps <- MCSeps
  Tos <- MCTos
  FirstRoom = 2
  MaxToks = 12
  MaxDepth = 5
  Memory = 3
  Routines <- MCRoutines
  Lengths = {0, 1, 3}
  Strides <- MCStrides
  Factors = {0, 3}
  Extent = 4
  Vectors <- MCVectors
  Declared = {"hand", "replaced", "both", "parse", "nobody"}
  Hand = {"hand", "replaced"}
  Archives = {"runtime", "parser"}
  Library <- MCLibrary
  Needed = {"hand", "replaced", "ticks", "both", "parse", "nobody"}
INVARIANTS
  PartsTypeOK
  MaximumCovers
  FirstDirectory BestInDirectory HighestWhenLonger
  RoomInBuffer PiecesRight
  JumpsLive
  AtItsElement BlasRight
  OnlyWholeFiles PlotsItsVariables EventsAtZeros
PROPERTIES
  FreshFromMaximum RealWins CallEnds
CHECK_DEADLOCK FALSE

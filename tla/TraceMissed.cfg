\* A derivative that is zero at a point of time between two signs.
SPECIFICATION TraceSpec
CONSTANTS
  Results <- MCResults
  Units = {8}
  Time = "time"
  Vars = {"time", "x", "der(x)", "der(y)", "p"}
  Ders = {"der(x)", "der(y)"}
  Levels <- MCLevels
  Points = {3}
INVARIANTS EverySignChangeMarked

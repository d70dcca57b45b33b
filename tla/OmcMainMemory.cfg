\* A call that finds the memory filled by the calls before it.
SPECIFICATION MainSpec
CONSTANTS
  MaxDepth = 3
  Memory = 3
INVARIANTS FitsWhenFresh

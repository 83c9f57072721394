SPECIFICATION RingFairSpec
CONSTANTS
  LevelPrice = {1, 2, 3, 4, 5, 6}
INVARIANTS
  RingSorted
PROPERTIES
  ImplementsLevels
  AddCompletes

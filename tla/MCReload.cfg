SPECIFICATION Spec
CONSTANTS
  Order <- MCOrder
  Workers = {w1}
  MaxHups = 2
  MaxQueue = 1
INVARIANTS SearchSafe Reloaded OneSensorsDb
CHECK_DEADLOCK FALSE
SYMMETRY WorkerSymmetry

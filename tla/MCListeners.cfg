SPECIFICATION Spec
CONSTANTS
  Ports = {p, q}
  MaxListed = 2
  MaxReads = 3
  MaxEvents = 4
INVARIANTS  Installed StreamIntact
CHECK_DEADLOCK FALSE
SYMMETRY PortSymmetry

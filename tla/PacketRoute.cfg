SPECIFICATION Spec
CONSTANTS
  Clients = {a1, a2}
  MaxConns = 3
SYMMETRY ClientSymmetry
CHECK_DEADLOCK FALSE
INVARIANTS
  StateIsNotResumed
  RouteIsWhole

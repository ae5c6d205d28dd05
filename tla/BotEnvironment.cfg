SPECIFICATION Spec
CONSTANTS
  Jobs = {j1, j2, j3}
  MaxCommands = 6
  MaxRestarts = 2
SYMMETRY JobSymmetry
CHECK_DEADLOCK FALSE
INVARIANTS
  ReadyMeansBuilt
  StartDoesNotSync
  GuardedWorkAlone

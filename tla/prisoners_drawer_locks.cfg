\* The drawer strategies use the global lock.
CONSTANTS
  N_DRAWERS = 2
  N_ATTEMPTS = 1
  Games = 1
  Random = {0, 1}
  CreateMayFail <- NoneFails
SPECIFICATION Spec
INVARIANTS DrawerStrategyIsConcurrent

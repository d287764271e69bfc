\* Games may be abandoned: their threads run on, and drawer locks are used.
\* The program may hang here, hence no deadlock check.
CONSTANTS
  N_DRAWERS = 3
  N_ATTEMPTS = 1
  Games = 1
  Random = {1}
  CreateMayFail <- SomeFail
SPECIFICATION FairSpec
INVARIANTS ForgottenByFindOrFlag
PROPERTIES EndsUnlessForgotten
CHECK_DEADLOCK FALSE

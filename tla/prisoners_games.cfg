\* Three prisoners, two attempts each, two games for each strategy, every shuffle.
CONSTANTS
  N_DRAWERS = 3
  N_ATTEMPTS = 2
  Games = 2
  Random = {0, 1, 2, 3, 4, 5}
  CreateMayFail <- NoneFails
SPECIFICATION FairSpec
INVARIANTS TypeOK Shuffled OneAtATime SmartWinsByCycles HonestWins
PROPERTIES GamesEnd

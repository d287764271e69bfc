\* Inputs that fit the storage and the list, fill them and overrun them.
CONSTANTS
  Inputs <- AllInputs
  FlagsN <- CountsN
  ArgCounts = {0, 1, 4}
  XARGS_BUFFER_SIZE = 10
  XARGS_MAX_ARGS = 4
SPECIFICATION FairSpec
INVARIANTS ArgumentsAreThoseOfTheText OverrunNeedsLongInput BatchesCoverArguments
PROPERTIES EndsUnlessZero

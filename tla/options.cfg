\* All command lines of up to three tokens.
CONSTANTS
  Numbers = {1, 3, 7}
  ULONG_MAX = 7
  MAX_PORT = 2
  MaxTokens = 3
SPECIFICATION Spec
INVARIANTS StartsWithWhatWasGiven ReportsTheFirstFault

\* A client that leaves takes the arguments of its game with it.
CONSTANTS
  Letters = {"a", "b"}
  BUFFER_SIZE = 6
  Outputs <- SomeOutputs
  OldTexts <- SomeTexts
  OldWords <- SomeWords
  Lines <- SomeLines
  MaxLines = 1
SPECIFICATION Spec
INVARIANTS ArgsFreedInRunGame
CHECK_DEADLOCK FALSE

\* Up to three lines from the client, all of which may be on their way at once.
CONSTANTS
  Letters = {"a", "b"}
  BUFFER_SIZE = 6
  Outputs <- SomeOutputs
  OldTexts <- SomeTexts
  OldWords <- SomeWords
  Lines <- SomeLines
  MaxLines = 3
SPECIFICATION FairSpec
INVARIANTS TypeOK ScoreIsWhatWasTold ChallengeIsSolvable
PROPERTIES ImplementsGame ClosedGameEnds
CHECK_DEADLOCK FALSE

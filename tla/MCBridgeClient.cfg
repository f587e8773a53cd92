CONSTANTS
  MaxCommands = 3
  MaxStarts = 2
SPECIFICATION FairSpec
INVARIANT TypeOK
INVARIANT CalledAtMostOnce
INVARIANT PendingHasProcess
PROPERTY PendingIsCalled
PROPERTY LiveProcessAnswers

SPECIFICATION FairSpec
CONSTANTS
  N = 3
  Slots = {"web", "game"}
  Answers <- MCAnswers
INVARIANT FirstNamedWins OneFailureFailsAll
PROPERTY IsASource
CONSTANT Failed = Failed

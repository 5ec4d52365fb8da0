SPECIFICATION Spec
CONSTANTS
  Programs <- MCPrograms
  Boards = {"main", "slow"}
  MaxWait = 1
  IrqLines = {0, 4}
INVARIANTS
  ByteIsAnswered
  DivisionIsRight
PROPERTIES
  ImplementsIsa
  NoAccessIsLost
  HighestIsTaken

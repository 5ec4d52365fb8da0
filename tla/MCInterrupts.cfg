SPECIFICATION FairSpec
CONSTANTS
  Program <- Kinds
  Images <- Flags
  PopfImages <- Flags
INVARIANTS
  IntrAfterShadow
  TrapIsArmed
  TrapIsTakenOnce
  TrapStepsOne
PROPERTIES
  NmiIsKeptButByPopf
  NmiIsTaken
  IntrIsTaken

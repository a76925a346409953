CONSTANTS
  NumCoros = 3
  Programs <- AllPrograms
  Doomed <- FirstTwo
  MainSleeps = TRUE
  MainDelay = 2
  MaxFds = 5
SPECIFICATION Spec
CHECK_DEADLOCK FALSE
INVARIANT CombinatorsDeliver
PROPERTIES AwaitsReturn ProgramEnds

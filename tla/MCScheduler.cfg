CONSTANTS
  c1 = c1
  c2 = c2
  c3 = c3
  main = main
  worker = worker
  NONE = NONE
  Main = main
  Coros <- ThreeCoros
  Threads <- TwoThreads
  Priorities <- NormalHigh
SPECIFICATION Spec
CHECK_DEADLOCK FALSE
INVARIANTS QueueOrder NothingAbandoned
PROPERTIES ScheduledRuns

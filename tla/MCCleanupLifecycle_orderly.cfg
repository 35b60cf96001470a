CONSTANTS
  c1 = c1
  c2 = c2
  c3 = c3
  Callers <- Three
  Programs <- Orderly
SPECIFICATION FairLifecycleSpec
CHECK_DEADLOCK FALSE
INVARIANTS
  OneCleaner
PROPERTIES
  StopWaits
  StopReturns

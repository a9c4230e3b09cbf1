\* A terminal and its replacement, three generations.
\* The process ends, and so may the generations of the model: no deadlock check.
SPECIFICATION Spec
CONSTANTS
  Terminals = {t1, t2}
  NoTerminal = none
  RecheckCycles = 2
  RestartBudget = 2
  MaxFailures = 3
  OutputCapacity = 3
  MaxGeneration = 3
CHECK_DEADLOCK FALSE
INVARIANTS TypeOK WindowsOfOneGeneration LostIsNotResumed CleanExitWroteAll
PROPERTIES GenerationJustified StopEnds

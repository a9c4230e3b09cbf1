\* Do the generations of the frames ever go back?
SPECIFICATION Spec
CONSTANTS
  Terminals = {t1, t2}
  NoTerminal = none
  RecheckCycles = 2
  RestartBudget = 2
  MaxFailures = 3
  OutputCapacity = 3
  MaxGeneration = 3
CHECK_DEADLOCK FALSE
INVARIANT GenerationsInOrder

\* Three calls on two blocking workers and two candidates: races meet other
\* races and the threads of abandoned ones, and a call may find no worker.
SPECIFICATION Spec
SYMMETRY Symmetry
CONSTANTS
  Workers = {c1, c2, c3}
  Candidates = 2
  Unary = 3
  Blocking = 2
  Tdx = 1
  Threshold = 2
INVARIANTS TypeOK GateExact Accounted PermitsBalance HealthAgrees
PROPERTY FailsWhenExhausted

\* Two application threads and the heartbeat on a pool of one connection.
SPECIFICATION Spec
SYMMETRY Symmetry
CONSTANTS
  Users = {t1, t2, heart}
  Heart = heart
  Servers = {a, b}
  NoServer = none
  Nobody = nobody
  Primary = a
  MaxSize = 1
  AutoRetry = TRUE
  MaxAttempts = 2
INVARIANTS TypeOK Balanced NoStaleIdle FailedNeverIdle IdleBounded

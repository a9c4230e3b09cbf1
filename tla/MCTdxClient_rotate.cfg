\* The first request of a client that was never connected fails.
SPECIFICATION Spec
CONSTANTS
  Users = {t1, t2, heart}
  Heart = heart
  Servers = {a, b}
  NoServer = none
  Nobody = nobody
  Primary = a
  MaxSize = 2
  AutoRetry = TRUE
  MaxAttempts = 2
INVARIANT RotatesAway

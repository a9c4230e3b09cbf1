\* Does every call end? One endpoint, so that a retry finds no other.
SPECIFICATION Spec
CONSTANTS
  Users = {t1, t2, heart}
  Heart = heart
  Servers = {a}
  NoServer = none
  Nobody = nobody
  Primary = a
  MaxSize = 1
  AutoRetry = TRUE
  MaxAttempts = 2
PROPERTY CallsEnd

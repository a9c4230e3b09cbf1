\* A command queue that holds one command: the smallest --agent-command-capacity
\* the server accepts.
SPECIFICATION Spec
CONSTANTS
  Streams = {s1, s2}
  Publishers = {}
  Subscribers = {}
  Watchlists = {w1, w2}
  NoWatchlist = none
  Sizes = {1}
  MaxReplayEvents = 1
  MaxReplayBytes = 1
  MaxSubscribers = 1
  QueueCapacity = 1
  CommandCapacity = 1
  MaxGeneration = 2
  MaxSequence = 1
  MaxRevision = 1
  MaxLocal = 0
CHECK_DEADLOCK FALSE
INVARIANT SessionHasOwner

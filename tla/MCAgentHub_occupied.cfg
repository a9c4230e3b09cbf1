\* The same instance: the agent reconnects while the hub still holds its old
\* session.
SPECIFICATION AHSpec
CONSTANTS
  Streams = {s1, s2}
  NoStream = noStream
  Publishers = {}
  Subscribers = {}
  Watchlists = {w1, w2}
  NoWatchlist = none
  InitialWatchlist = w1
  Sizes = {1}
  MaxReplayEvents = 2
  MaxReplayBytes = 2
  MaxSubscribers = 1
  QueueCapacity = 1
  CommandCapacity = 3
  MaxGeneration = 3
  MaxSequence = 2
  MaxRevision = 2
  MaxLocal = 0
CHECK_DEADLOCK FALSE
INVARIANT ReconnectsAfterFailure

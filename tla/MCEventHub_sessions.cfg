\* Sessions, watchlists and the replay buffer: two connections of agents, no
\* subscriber. Ends when the connections are used up, so deadlock is expected.
SPECIFICATION Spec
CONSTANTS
  Streams = {s1, s2}
  Publishers = {}
  Subscribers = {}
  Watchlists = {w1, w2}
  NoWatchlist = none
  Sizes = {1, 2, 4}
  MaxReplayEvents = 2
  MaxReplayBytes = 3
  MaxSubscribers = 1
  QueueCapacity = 1
  CommandCapacity = 3
  MaxGeneration = 2
  MaxSequence = 3
  MaxRevision = 1
  MaxLocal = 0
CHECK_DEADLOCK FALSE
INVARIANTS TypeOK ReplayWindow ReplayComplete ExclusiveStream DesiredIsTold SessionHasOwner
PROPERTY SilentAgentExpires

\* The live stream: broadcast, local lane, subscribers. Three connections, so
\* that the hub can be taken back to a generation it held before.
\* Ends when every sequence is used up, so deadlock is expected.
SPECIFICATION Spec
SYMMETRY Symmetry
CONSTRAINT FewBroadcasts
CONSTANTS
  Streams = {s1, s2, s3}
  Publishers = {p1, p2}
  Subscribers = {c1}
  Watchlists = {w1}
  NoWatchlist = none
  Sizes = {1, 2}
  MaxReplayEvents = 2
  MaxReplayBytes = 1
  MaxSubscribers = 1
  QueueCapacity = 2
  CommandCapacity = 2
  MaxGeneration = 2
  MaxSequence = 2
  MaxRevision = 0
  MaxLocal = 2
CHECK_DEADLOCK FALSE
INVARIANTS AgentLaneInOrder BroadcastCatchesUp AckedWasBroadcast NoSilentGap LocalSequencesUnique TelemetryBalances

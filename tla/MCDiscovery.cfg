SPECIFICATION FairSpec
CONSTANTS
  Hosts = {"h1", "h2", "h3"}
  Talkers = {"h1", "h3"}
  Resolved = {"h1", "h2"}
  Workers = {"w1", "w2"}
  First = "w1"
  Steps = 2
INVARIANTS EventsMatchSummary SocketOutlivesListener PhaseEndsFull
PROPERTIES CountsOnlyIncrease DiscoveryEnds

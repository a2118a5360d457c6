CONSTANTS
  Count = 3
  Timeout = 2
  MaxInFlight = 2
  SendsPerMs = 1
  GiveUp = 2
  Garbage = {0, 4}
  MaxWaiting = 2
  Platforms = {"posix", "windows"}
  Nap = 3
SPECIFICATION SweepFairSpec
INVARIANTS SlotsIntact EachHostOnce AliveMeansReplied OversleepsOnlyBehindUnsent
PROPERTIES DownWithoutEcho SweepEnds

CONSTANTS
  main = main
  other = other
  j1 = j1
  j2 = j2
  NoJob = NoJob
  Loops <- TwoLoops
  Main <- main
  Jobs <- TwoJobs
  OwnJobs <- TwoJobs
  Shortages <- Both
  MinWindow = 3
  Limit = 3
  StartBatch = 2
  MemoryFails = TRUE
SPECIFICATION FairSpec
INVARIANTS TypeOK NoPhantomOpen NoSocketIsNotSilence AskedIsReported
PROPERTIES EachJobOnce Termination

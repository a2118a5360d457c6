CONSTANTS
  FloorMs = 100
  HeadroomMs = 40
  CeilingMs = 500
  UsPerMs = 1000
  Start = 1
  End = 3
  ByRank <- RankedSecond
  FixedWaits <- Waits
  LossyMinAnswers = 1
  Rtts = {2000, 150000, 400000}
SPECIFICATION FairSpec
INVARIANTS RetrySlotsIntact NoPortGivenUpEarly EveryPortSettled FullMeansSettled WaitBudget
PROPERTIES ScanEnds

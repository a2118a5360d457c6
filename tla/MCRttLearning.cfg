CONSTANTS
  FloorMs = 5
  HeadroomMs = 2
  CeilingMs = 25
  UsPerMs = 20
  Samples = {1, 30, 77, 160}
SPECIFICATION FairSpec
INVARIANTS EstimateInHull WaitFitsAnswers
PROPERTY ForgetsSlowAnswers

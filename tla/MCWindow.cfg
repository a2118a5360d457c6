CONSTANTS
  Min = 2
  Limit = 7
  Slack = 1
  DarkAfter = 3
  Rtts = {0, 3}
  Skew = 1
  MaxTime = 11
  MaxSettled = 8
SPECIFICATION Spec
CHECK_DEADLOCK FALSE
INVARIANTS DarkFollowsSilence OneCutPerRoundTrip

SPECIFICATION Spec
CONSTANTS
  Ips = {a, b, mc}
  NotHosts = {mc}
  Nuds = {"reachable", "stale", "incomplete"}
  Modes = {"kernel", "parent"}
  Timeout = 2
  MaxReplies = 2
  MaxHalves = 1
  MaxChanges = 2
SYMMETRY Symmetry
INVARIANTS DumpComplete SecondReadIsLater WaitIsBounded FreshProofUnlessMixed

SPECIFICATION Spec
CONSTANTS
  Ips = {"a", "mc"}
  NotHosts = {"mc"}
  Nuds = {"reachable", "delay", "stale", "probe", "incomplete"}
  Modes = {"kernel"}
  Timeout = 2
  MaxReplies = 0
  MaxHalves = 0
  MaxChanges = 2
INVARIANTS FreshProof

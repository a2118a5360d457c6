CONSTANTS
  Timeout = 3
  WaitMax = 8
  Counts = {1, 2}
SPECIFICATION ExchangeSpec
INVARIANTS SocketsClosedOnce InTimeIsKept WaitIsShared

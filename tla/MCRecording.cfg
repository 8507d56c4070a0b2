CONSTANTS
  BarRing = 2
  RthOpen = 1
  RthClose = 2
  MaxSize = 2
  Locate = {1, 2}
  Sym = {"q", "u"}
  Quoted = {"q"}
  StockOf <- MCStockOf
  Invalid = "invalid"
  Prices = {1, 2}
  MaxShares = 2
  MaxEvents = 3
  LastMinute = 2
  RepeatWindow = 2
  RingCap = 2
  MaxActions = 4
  RecCap = 1
  SizeOf <- MCSizeOf
  BufSize = 3
  Ahead = 1
  MaxMessages = 3
  MaxLives = 3
  Ticker = {"x", "y"}
  Boards <- MCBoards
  KeepDays = 2
  LastDate = 3
SPECIFICATION Spec
INVARIANT RestartReadsOn
CHECK_DEADLOCK FALSE

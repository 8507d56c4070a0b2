CONSTANTS
  Value = {a, b}
  Cap = 2
  MaxIndex = 5
  Torn = Torn
  None = None
  Field = {"hot", "bars"}
  Views <- MCViews
  MaxWrites = 3
  Thread = {t1, t2}
  Main = main
  LogThread = log
  QueueCap = 2
  MaxLogs = 4
SPECIFICATION CoreSpec
INVARIANT SeqLockInv
INVARIANT LoggerInv
PROPERTY HeldSlotStable
PROPERTY RefinesFifo
PROPERTY NoSideStarves
PROPERTY LoadReturns
PROPERTY LoggerStops
CHECK_DEADLOCK FALSE

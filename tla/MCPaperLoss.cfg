CONSTANTS
  s1 = s1
  s2 = s2
  NoSym = NoSym
  Slip = 1
  Fee = 1
  PositionUsd = 110
  MaxLoss = 20
  Latency = 1
  EntryTimeout = 1
  MaxHold = 2
  DayLength = 5
  FlatBy = 3
  StopPct = 8
  TargetPct = 20
  TrailArmPct = 10
  TrailPct = 8
  ChasePct = 5
  Sym = {s1, s2}
  MaxOpen = 2
  MaxSignals = 3
  Price = {80, 100, 112}
SPECIFICATION Spec
CHECK_DEADLOCK FALSE
PROPERTY LossStopsOpening

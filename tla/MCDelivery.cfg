CONSTANTS
  MaxSession = 2
  MaxSeq = 5
  MaxCount = 2
  GapTimeout = 1
  Retry = 0
  MaxRequest = 2
  MaxBuffered = 2
  N = 2
  MaxItems = 2
SPECIFICATION DeliverySpec
INVARIANT Accounted
INVARIANT DrainIsLoop
INVARIANT NoLostWakeup
PROPERTY RefinesOrderedFeed
PROPERTY RecoverySettles
PROPERTY PublishedIsConsumed
PROPERTY StopEnds

CONSTANTS
  l1 = l1
  l2 = l2
  Lane = {l1}
  Depth = 2
  MaxVersion = 2
  RingCap = 1
  EmitBacklog = TRUE
  Junk = {}
SPECIFICATION FairSpec
PROPERTY DroppedIsRetried

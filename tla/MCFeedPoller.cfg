CONSTANTS
  l1 = l1
  l2 = l2
  Lane = {l1, l2}
  Depth = 2
  MaxVersion = 3
  RingCap = 1
  EmitBacklog = FALSE
  Junk = {3}
SPECIFICATION FairSpec
INVARIANT EmittedOnce
INVARIANT NoBacklog
PROPERTY NewsReported

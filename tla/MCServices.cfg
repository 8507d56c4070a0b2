CONSTANTS
  RingCap = 1
  MaxEvents = 2
  MaxLives = 2
  MaxHeader = 40
  MaxChunk = 4
  RequestSize = 2
  MaxRequests = 2
  Responses <- MCResponses
  MaxJobs = 2
  QueueMax = 1
  Refill = 1
  Window = 2
SPECIFICATION Spec
INVARIANT JournalInv
INVARIANT ClientInv
INVARIANT JobsInv
INVARIANT NewsInv
PROPERTY FilingsKept
PROPERTY DaemonStops
PROPERTY CallReturns
PROPERTY JobsEnd
CHECK_DEADLOCK FALSE

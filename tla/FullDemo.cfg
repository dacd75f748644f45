CONSTANTS
  MaxObjects = 2
  MetricCapacity = 3
  RING = 2
  HANDSHAKE_TIMEOUT = 2
  ITERATIONS = 3
  Latency = {1, 2}
  MaxRuns = 2
SPECIFICATION Spec
INVARIANTS UmemWithinMemory FreedByItsAllocator  CountsThisRun ReportSound
PROPERTIES DemoEnds
CHECK_DEADLOCK FALSE

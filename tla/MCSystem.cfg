CONSTANTS
  b1 = b1
  b2 = b2
  b3 = b3
  b4 = b4
  Block = {b1, b2, b3, b4}
  NULL = NULL
  THREAD_COUNT = 4
  Irq = {1}
  VTimer = {}
  Rules = {}
  Deaths = {TRUE}
  Boots = {TRUE, FALSE}
SPECIFICATION MCSpec
INVARIANTS QuickBootTarget NeverHalted UniqueRunning RunQueueExact ScanFresh
PROPERTIES KeysRead

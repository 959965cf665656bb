CONSTANTS
  MIN_PRIORITY = 1
  MAX_PRIORITY = 2
  TIME = 2
  MaxTasks = 4
  Priorities = {0, 1, 2}
  Bursts = {1, 2, 5}
SPECIFICATION DriverSpec
INVARIANTS FifoAmongEquals SJFWaitsLeast ListsWellFormed
PROPERTIES IsReadyQueues EveryTaskServed

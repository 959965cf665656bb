CONSTANTS
  MAX = 5
  Pids = {p, q}
  MaxRequest = 3
  MaxProcesses = 3
SPECIFICATION MemorySpec
INVARIANTS NoOverlap FitsAreRight StatusCoversMemory
PROPERTIES CompactionGathers

CONSTANTS
  Workers = {w1, w2}
  NUM_WORK = 2
  QUEUE_SIZE = 2
SPECIFICATION Spec
INVARIANT ExecutesProvided

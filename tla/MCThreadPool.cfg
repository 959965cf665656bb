CONSTANTS
  Workers = {w1, w2, w3}
  NUM_WORK = 3
  QUEUE_SIZE = 2
SPECIFICATION FairSpec
INVARIANTS AcceptedAccounted DoneMeansExecuted
PROPERTIES QueueUntilUnderflow EndsUnlessUnderflow

CONSTANTS
  Producers = {p1}
  Consumers = {c1}
  Items = {a, b}
  BUFFER_SIZE = 3
  MaxRuns = 2
  NoItem = NoItem
  Nobody = Nobody
SPECIFICATION FairSpec
PROPERTY ExitCompletes

CONSTANTS
  Producers = {p1, p2}
  Consumers = {c1, c2}
  Items = {a, b}
  BUFFER_SIZE = 3
  MaxRuns = 2
  NoItem = NoItem
  Nobody = Nobody
SPECIFICATION Spec
INVARIANTS TokensExact NeverOverfills NoStall
PROPERTIES IsBoundedQueue
SYMMETRY Symmetry

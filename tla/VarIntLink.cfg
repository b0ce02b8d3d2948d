SPECIFICATION Spec
CONSTANTS
  W = 3
  Null = Null
INVARIANTS TypeOK RoundTrip Shortest
CHECK_DEADLOCK FALSE

SPECIFICATION Spec
CONSTANTS
  Spans = {1, 11}
  Shares = {0, 5, 8, 10}
  Threads = {0, 2, 3}
  Block = 2
  Slice = 2
INVARIANTS
  FindNotLost
  SpanCovered

CONSTANTS
  a = a
  b = b
  c = c
  Tracks = {a, b, c}
  Indexes <- MCIndexes
  None = None
SPECIFICATION Spec
INVARIANT ListsWhatStays

CONSTANTS
  long = long
  short = short
  empty = empty
  Names = {track}
  Places = {here, outside}
  Library = {here}
  Files = {f1, f2}
  Contents = {long, short, empty}
  Size <- MCSize
  MaxU64 = 3
  RangeHeaders <- MCRangeHeaders
  MaxChunk = 2
  MaxChanges = 2
  None = None
SPECIFICATION Spec
INVARIANTS TypeOK Exact OneVersion
PROPERTIES Answered
CHECK_DEADLOCK FALSE

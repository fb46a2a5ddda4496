SPECIFICATION MCSpec
CONSTANTS
  Size = 4
  Val = {0, 1}
  Widths = {1, 2}
  DIRTY_BLOCK = 2
  WORD_BITS = 2
  Objects = {0, 2}
  Requests = {1, 2, 3}
  Buckets = {1, 4}
  PAGE = 1
  Orders = {1, 2, 3}
  MAX_ORDER = 2
  QUARANTINE_CAP = 1
INVARIANT TraceRecords

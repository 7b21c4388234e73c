SPECIFICATION Spec
CONSTANTS
  UMAX = 9
  FLUSH_RANGE_CAP = 3
  FullThreshold = 4
INVARIANTS TypeOK QueueIsExact RangesApart CountIsExact
PROPERTIES EscalatesOnlyOnOverflow FlushCoversAll CallsEnd

SPECIFICATION Spec
CONSTANTS
  Sources <- MCSources
  max_entries = 2
  PSCH_MAX_CACHED_QUERY_LEN = 4
  MaxOom = 1
INVARIANTS IsLru  TextNormalized
CHECK_DEADLOCK FALSE

SPECIFICATION Spec
CONSTANTS
  Queries = {q1, q2}
  MayLackId = {}
  Utilities = {}
  Untracked = {}
  MaxDepth = 3
  psch_min_duration_us = 2
  psch_sample_rate = 50
INVARIANT TopLevelFlagRight
CHECK_DEADLOCK FALSE

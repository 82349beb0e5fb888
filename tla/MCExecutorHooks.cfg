SPECIFICATION Spec
CONSTANTS
  Queries = {q1, q2}
  MayLackId = {q2}
  Utilities = {u1, u2}
  Untracked = {u2}
  MaxDepth = 3
  psch_min_duration_us = 2
  psch_sample_rate = 50
INVARIANTS NestingExact UtilityEventsRight UndisturbedRight
CHECK_DEADLOCK FALSE

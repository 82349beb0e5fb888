CONSTANTS
  p1 = p1
  p2 = p2
  NoOne = NoOne
  Resetter = Resetter
  Producers <- TwoBackends
  Capacity = 1
  Modulus = 8
  BatchCapacity = 1
  ForceOverflow = {}
  Toggling = {}
  SizeModulus = 4
  MaxEvents = 1
  MaxResets = 1
SPECIFICATION FairStatsSpec
INVARIANTS CountersNotAheadOfPositions 
PROPERTIES PublishedIsDelivered FlushReturns
CHECK_DEADLOCK FALSE

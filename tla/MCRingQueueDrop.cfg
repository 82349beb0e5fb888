CONSTANTS
  p1 = p1
  p2 = p2
  NoOne = NoOne
  Resetter = Resetter
  Producers <- TwoBackends
  Capacity = 2
  Modulus = 4
  BatchCapacity = 1
  ForceOverflow = {}
  Toggling = {}
  MaxEvents = 2
  MaxResets = 0
SPECIFICATION Spec

PROPERTY DroppedOnlyWhenFull
CHECK_DEADLOCK FALSE

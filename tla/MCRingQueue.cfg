CONSTANTS
  p1 = p1
  p2 = p2
  NoOne = NoOne
  Resetter = Resetter
  Producers <- TwoBackends
  Capacity = 2
  Modulus = 4
  BatchCapacity = 1
  ForceOverflow = {}
  Toggling = {p1}
  MaxEvents = 2
  MaxResets = 1
SPECIFICATION Spec
INVARIANTS NoSlotRace  EventsConserved CountersSound IInv
PROPERTY ImplementsChannel
CHECK_DEADLOCK FALSE

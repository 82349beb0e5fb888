SPECIFICATION WorkerSpec
CONSTANTS
  Capacity = 3
  BatchMax = 2
  Sessions = {s1, s2}
  MaxLives = 2
INVARIANTS NoLostWakeup RunningIsFound
PROPERTIES TermStops SignalsServed FlushServed StaleIsCleared

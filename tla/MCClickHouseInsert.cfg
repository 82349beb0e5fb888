SPECIFICATION Spec
CONSTANTS
  MaxBatches = 4
  MaxConnects = 3
  NColumns = 3
  kMaxRecvPackets = 3
  Tls = TRUE
INVARIANTS  NothingOutlivesConnection
PROPERTY ImplementsDelivery
CHECK_DEADLOCK FALSE

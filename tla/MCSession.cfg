SPECIFICATION FairSessionSpec
CONSTANTS
  BatchCapacity = 2
  Roles = {alice, bob}
  Droppable = {bob}
  unknown = unknown
INVARIANTS NoSelfDeadlock CaptureRestored AttachmentsCounted
PROPERTIES CallsReturn ExitCompletes EventNamesItsUser
CHECK_DEADLOCK FALSE

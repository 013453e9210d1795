SPECIFICATION Spec
CONSTANTS
  IdxMod = 4
  QueueSize = 2
  Capacity = 1
  MaxSectors = 4
  Values <- MCValues
  Requests <- MCRequests
INVARIANTS TypeOK RingsBounded StuckOnlyPastCapacity NoLostCompletion
PROPERTIES ServerSpec AnswerEventually

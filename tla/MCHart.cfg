SPECIFICATION Spec
CONSTANTS
  AddrSpace = 4
  Entry = 0
  Targets = {0, 2}
  Masks <- MCMasks
  Csrs <- MCCsrs
INVARIANTS TypeOK KernelStaysBelowM FrameIntact
PROPERTIES ReturnRestores InterruptsRespectMasks

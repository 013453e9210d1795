SPECIFICATION Spec
CONSTANTS
  AddrSpace = 8
  Entry = 0
  Targets = {0, 5}
  Masks <- MCMasks
  Csrs <- MCCsrs
PROPERTY TrapEntersAtVector

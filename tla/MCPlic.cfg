SPECIFICATION Spec
CONSTANTS
  NumSources = 3
  MaxLevel = 2
INVARIANTS TypeOK SeipIffEligible ScanPicksBest
PROPERTY RequestsKept

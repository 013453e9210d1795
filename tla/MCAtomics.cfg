SPECIFICATION Spec
CONSTANTS
  Threads = {1, 2, 3}
  Va <- MCVa
  Word <- MCWord
  Scratch = 24
  ClearBy = "pair"
  MaxIncr = 2
PROPERTIES ScAtomic EveryoneFinishes

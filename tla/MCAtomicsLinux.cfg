SPECIFICATION Spec
CONSTANTS
  Threads = {1, 2, 3}
  Va <- MCVa
  Word <- MCWord
  Scratch = 24
  ClearBy = "sc"
  MaxIncr = 2
INVARIANT NoLostUpdate

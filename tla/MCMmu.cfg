SPECIFICATION Spec
CONSTANTS
  IndexBits = 1
  PtLevels = 3
  PpnBits = 2
  Root <- MCRoot
  Image <- MCImage
  Stored <- MCStored
  MaxStores = 2
INVARIANTS WalkFindsMapping SuperpagesAreLinear
PROPERTIES ReadsKeepMap UserConfined DirtyIsMarked

CONSTANTS
  NLayers = 2
  SwaLayers <- MCSwaLayers
  Window = 3
  MaxCtx = 6
  MaxSeq = 4
  MaxSpan = 3
  Tokens = {a, b}
  NoToken = NoToken
  Zeros = Zeros
SPECIFICATION Spec
SYMMETRY TokenSymmetry
INVARIANTS
  TypeOK
  KeysInPlace
  Lockstep
  AttendsWindow
  SnapshotHoldsEvicted
PROPERTIES
  ImplementsLog

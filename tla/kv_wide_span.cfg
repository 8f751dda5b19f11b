CONSTANTS
  NLayers = 2
  SwaLayers <- MCSwaLayers
  Window = 2
  MaxCtx = 5
  MaxSeq = 3
  MaxSpan = 3
  Tokens = {a, b}
  NoToken = NoToken
  Zeros = Zeros
SPECIFICATION Spec
SYMMETRY TokenSymmetry
INVARIANTS
  KeysInPlace

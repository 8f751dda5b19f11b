CONSTANTS
  Sources = {m1, m2}
  Kinds <- MCKinds
  Layouts <- MCLayouts
  FileLen = 19
  Page = 8
  Align <- MCAlign
SPECIFICATION Spec
INVARIANTS
  ViewsMapped
  ViewsCover
  ResidencyExact
PROPERTIES
  DropsComplete
CHECK_DEADLOCK FALSE

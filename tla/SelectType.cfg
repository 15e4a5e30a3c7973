SPECIFICATION Spec
CONSTANTS
  Types <- MCTypes
  Sigs <- MCSigs
  VoidPushes <- MCVoidSkipped
  MaxBody = 9
INVARIANTS
  SelectTypeTracked

SPECIFICATION Spec
CONSTANTS
  Types <- MCTypes
  Sigs <- MCSigs
  VoidPushes <- MCVoidEither
  MaxBody = 10
INVARIANTS
  TypeOK
  LabelsMirrorFrames
  BranchesLand
  NoUnderflow
  ExactUntilDrift
  IInv

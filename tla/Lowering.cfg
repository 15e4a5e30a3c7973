SPECIFICATION Spec
CONSTANTS
  Bits32 = 2
  Bits64 = 4
  Unit = 8
  Tops <- MCTops
  Inf = 1000000
  Instrs <- Supported
  Signatures <- MCSignatures
  Table <- MCTable
  MakingOrders <- MCMakingOrders
INVARIANTS TypeOK RightUnlessNamed NothingElseTouched
CHECK_DEADLOCK FALSE

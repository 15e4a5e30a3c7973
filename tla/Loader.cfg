SPECIFICATION Spec
CONSTANTS
  WasiNames = {"abort"}
  OtherNames = {"f"}
  MaxImports = 1
  MaxFuncs = 2
  MaxElements = 2
  MaxFlaws = 1
INVARIANTS
  TypeOK
  ConstructorRuns
  CallsReachFunction
  TableReachesFunction
  OriginalKept
  OneStubEach
  RefusedOnlyNamed

SPECIFICATION Spec
CONSTANTS
  Known = {1, 3, 10, 11}
  Subsections = {0, 1, 2, 7}
  MaxCustom = 3
INVARIANTS
  TypeOK
  NamesFound
  RefusedOnlyShort
PROPERTIES
  Aligned
  Ends

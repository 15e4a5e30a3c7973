SPECIFICATION Spec
CONSTANTS
  FileHandles = {10, 11}
  DirHandles = {1001}
  FileNames = {a}
  DirNames = {d}
  FileIds = {1, 2}
  MaxLength = 4
INVARIANTS
  NothingCut
PROPERTIES
  FilesAsPromised

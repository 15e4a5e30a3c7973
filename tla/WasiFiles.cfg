SPECIFICATION Spec
CONSTANTS
  FileHandles = {10, 11}
  DirHandles = {1001}
  FileNames = {a, b}
  DirNames = {d}
  FileIds = {1, 2, 3}
  MaxLength = 1
INVARIANTS
  TypeOK
  FilesHeldOnce
PROPERTIES
  HandleKeepsFile
  LostFileRests
  InodesStable
  FilesAsPromised

SPECIFICATION Spec
CONSTANTS
  WordBits = 5
  ChunkBits = 2
  BufferSize = 2
  WordOf <- MCWordOf
  Chars <- MCChars
  MaxText = 3
  MaxItems = 2
INVARIANTS
  TypeOK
  ReadBack
  InStep
  CutNoticed

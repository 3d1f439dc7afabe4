CONSTANTS
  Byte = {0, 1}
  Junk = {0}
  ChunkMin = 1
  Sizes = {0, 1, 2}
  Strings <- McStrings
  MaxChunks = 2
  MaxRetired = 2
  MaxAllocs = 2
SPECIFICATION Spec
INVARIANTS
  TypeOK
  NoOverlap
  InsideChunks
PROPERTY HeapSpec

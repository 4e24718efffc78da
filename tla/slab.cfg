SPECIFICATION Spec
CONSTANTS
  ChunkSize = 3
  MaxChunks = 2
  Values = {v1, v2}
  NoValue = NoValue
INVARIANTS TypeOK NextIsFree NoEntryLost LenExact
PROPERTY IsMap

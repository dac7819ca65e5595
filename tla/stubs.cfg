\* Every function, on memory that ends soon.
SPECIFICATION Spec
CONSTANTS
  Absent = Absent
  Real = Real
  Data <- MCData
  Contents <- MCTexts
  Bytes = {0, 1, 2}
  HeapBase = 10
  HeapSize = 6
  Align = 2
  Page = 4
  Chunk = 2
  Limit = 16
  MaxTransfer = 4
  Word = 64
  Implemented <- MCFunctions
  Ptrs <- MCPtrs
  Others = {"other"}
  Chars = {0, 2}
  Numbers = {0, 2}
  Sizes = {0, 1, 2}
  Resizes = {0, 2, 4}
  Binds <- MCBinds
  Unbinds = {"other"}
  Careless = FALSE
  MaxCalls = 2
INVARIANTS AsLibcWithRoom MachineReplayed HeapRewound

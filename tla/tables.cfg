\* Names, coverage files, contexts and two engines, a few entries of each.
SPECIFICATION MCSpec
CONSTANTS
  NoName = NoName
  Reach = 4
  MaxOffset = 2
  Offsets = 4
  BlockSizes = 4
  PAGE = 2
  Chunk = 2
  Spelled = {1, 2}
  Addresses = {0, 1, 2, 3, 4}
  Sizes = {0, 1, 4}
  MaxSymbols = 3
  Unique = TRUE
  Sources <- MCSources
  MaxBlocks = 3
  Starts = {0, 3, 5}
  Lengths = {0, 2, 6}
  Contents = {0, 5}
  Rights = {{"r"}, {"r", "x"}}
  Names = {NoName, "a"}
  MaxSegments = 3
  MaxSteps = 2
  BufferLength = 3
  From = {0, 1, 2, 4}
  Late = FALSE
  TracePage = 2
  Window = 4
  Caps = {0, 1, 2, 3, 4, 5, 6, 7, 8, 9, 10, 11, 12, 13, 14, 15, 16, 17, 18, 19, 20}
  Machines <- MCMachines
  Layouts <- MCLayouts
  Places <- MCPlaces
  Cells = {2, 4, 7}
  Vals = {0, 1}
  Mappable <- MCMappable
  BreakAt = {3}
  StoppedOnly = TRUE
  MaxICount = 2
  MaxBreaks = 2
  MaxEvents = 4
CHECK_DEADLOCK FALSE
INVARIANTS Described Attributed LoadedSegments FirstDisagreement Published

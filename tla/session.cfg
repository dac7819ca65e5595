\* Lines typed one by one, scripts that go wrong in batches, recordings started and stopped.
SPECIFICATION Spec
CONSTANTS
  fileA = fileA
  fileB = fileB
  bad = bad
  Launches <- MCLaunches
  Typed <- MCTyped
  Paths <- MCPaths
  BadPath = bad
  Patient = TRUE
  None = None
  MaxTyped = 4
  MaxLines = 3
INVARIANTS Replays StatusTells

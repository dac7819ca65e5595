\* Any calls, rewound and forgotten.
SPECIFICATION Spec
CONSTANTS
  Size = 6
  Align = 2
  Page = 4
  Sizes = {0, 1, 3}
  Ops = {"malloc", "free", "realloc"}
  MaxCalls = 5
VIEW View
INVARIANTS Sound Undoable

\* Files and memory: every call, failing and not, undone and replayed.
SPECIFICATION Spec
CONSTANTS
  Absent = Absent
  Unreadable = Unreadable
  PAGE = 2
  Own <- MCOwn
  Contents <- MCContents
  Stdin <- MCStdin
  BrkBase = 2
  BrkSize = 4
  ArenaBase = 6
  ArenaSize = 4
  Fds <- MCFds
  Bufs <- MCBufs
  Counts <- MCCounts
  Iovs <- MCIovs
  Paths <- MCPaths
  Offsets <- MCOffsets
  Addrs <- MCAddrs
  Lengths <- MCLengths
  Blocks <- MCBlocks
  Wants <- MCWants
  MaxCalls = 3
INVARIANTS KernelRewound MachineReplayed KernelSound

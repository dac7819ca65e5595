\* The same program with no edits and no folding, past the checkpoint after a rewind.
SPECIFICATION EffectsSpec
CONSTANTS
  p = p
  q = q
  Absent = Absent
  None = None
  Pages <- MCPages
  Vals <- MCVals
  Ctxs <- MCCtxs
  Kernel <- MCKernel
  Zero = 0
  Exec <- MCExec
  Writes <- MCWrites
  Faulting <- MCFaulting
  Calls <- MCCalls
  Serve <- MCServe
  Interval = 2
  Budget = 20
  CtxSize = 1
  MaxICount = 4
  MaxDeltas = 0
INVARIANT ReplayTracksHistory

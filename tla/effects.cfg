\* Small intervals and a small budget: calls, edits and rewinds over folded history.
SPECIFICATION EffectsSpec
CONSTANTS
  p = p
  q = q
  Absent = Absent
  None = None
  Pages <- MCPages
  Vals <- MCVals
  Ctxs <- MCCtxs
  Kernel <- MCKernel
  Zero = 0
  Exec <- MCExec
  Writes <- MCWrites
  Faulting <- MCFaulting
  Calls <- MCCalls
  Serve <- MCServe
  Interval = 2
  Budget = 3
  CtxSize = 1
  MaxICount = 4
  MaxDeltas = 2
INVARIANTS KernelRewound LogCovers

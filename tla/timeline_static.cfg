\* A program whose pages are always mapped, with room for two small deltas.
SPECIFICATION Spec
CONSTANTS
  p = p
  q = q
  Absent = Absent
  None = None
  Pages <- MCPages
  Vals <- MCVals
  Ctxs <- MCCtxs
  Zero = 0
  Exec <- StaticExec
  Writes <- StaticWrites
  Faulting <- StaticFaulting
  Interval = 2
  Budget = 4
  CtxSize = 1
  MaxICount = 4
  MaxDeltas = 4
INVARIANTS TypeOK  ReplayTracksHistory ReplayIsShort BudgetKept
 

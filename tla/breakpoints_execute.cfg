\* Execute breakpoints, set, changed and deleted between runs, and going back, in a program that exits and one that faults.
SPECIFICATION Spec
CONSTANTS
  State <- MCState
  Addrs <- MCAddrs
  Data <- MCData
  PC <- MCPC
  Step <- MCStep
  Touches <- MCTouches
  Reg <- MCReg
  Faulting <- LastFaults
  Exits <- MCExits
  Conds <- MCConds
  Kinds = {"EXECUTE"}
  Toggling = TRUE
  Advancing = FALSE
  None = None
  MaxICount = 4
  MaxBps = 2
  MaxIgnore = 1
INVARIANTS Conserved HitsBehind
PROPERTIES StopsAtEnabled ExitIsFinal

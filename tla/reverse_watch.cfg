\* Memory and register watches, temporary breakpoints and calls, forwards and backwards.
SPECIFICATION MCSpec
CONSTANTS
  State <- MCState
  Addrs <- MCAddrs
  Data <- MCData
  PC <- MCPC
  Step <- MCStep
  Touches <- MCTouches
  Reg <- MCReg
  Faulting <- NoStates
  Exits <- NoStates
  Conds <- MCConds
  Insn <- MCInsn
  Depth <- MCDepth
  Kinds = {"ACCESS", "REGISTER"}
  Toggling = FALSE
  Advancing = TRUE
  None = None
  MaxICount = 4
  MaxBps = 2
  MaxIgnore = 0
  MaxBack = 1
INVARIANT ArrivedOnce
PROPERTIES NewestStop OverCalls 

\* Ghidra's buttons, all but interrupt pressed once the last run is seen to have stopped.
SPECIFICATION FairSpec
CONSTANTS
  worker = worker
  console = console
  r1 = r1
  r2 = r2
  Worker = worker
  Console = console
  Runners <- OneRunner
  Ops <- AllButtons
  End = 3
  Endings = {"exit", "error", "loop"}
  Patient = TRUE
  TimesOut = TRUE
  MaxICount = 4
  None = None
INVARIANTS OneHolder  ShownAsItIs
PROPERTIES AliveAfterGoingBack WorkerComesBack CaughtRunEnds

\* As MCVnetRun.cfg: whether Run returns once ExitPackages has returned,
\* when the loop may end by "vnet quit" rather than by Quit.
CONSTANTS
  pa = pa
  pb = pb
  pc = pc
  Names = {pa, pb}
  Empty = Empty
  MaxDecls = 2
  XethPkg = pa
  QuitCfgs = {FALSE, TRUE}
  MaxSignals = 1
  MaxApiQuits = 1
SPECIFICATION VSpec
PROPERTY RunReturnsAfterExit
CHECK_DEADLOCK FALSE

\* Two packages, the first of which starts goevents; at most two
\* dependency declarations; "vnet quit" configured or not; one signal and
\* one outside Quit.  The process may stop for good (loop running with
\* nothing left to quit it, Run returned, a panic), so deadlock is not an
\* error.
CONSTANTS
  pa = pa
  pb = pb
  pc = pc
  Names = {pa, pb}
  Empty = Empty
  MaxDecls = 2
  XethPkg = pa
  QuitCfgs = {FALSE, TRUE}
  MaxSignals = 1
  MaxApiQuits = 1
SPECIFICATION VSpec
INVARIANT VTypeOK
INVARIANT InitRespectsDeps
INVARIANT ExitRespectsDeps
PROPERTY StopReturns
CHECK_DEADLOCK FALSE

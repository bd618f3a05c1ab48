CONSTANTS
  MaxMsgs = 3
  Cap = 2
  WakeupTicks = 2
  e1 = e1
  e2 = e2
  e3 = e3
  e4 = e4
  h1 = h1
  h2 = h2
  EventIds <- MCEventIds
  Hooks <- MCHooks
SPECIFICATION Spec
INVARIANT TypeOK
INVARIANT StreamConserved
PROPERTY RxDelivered
CHECK_DEADLOCK FALSE

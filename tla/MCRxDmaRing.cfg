CONSTANTS
  Nexts = {0, 1}
  States <- MCStates
  RefNext <- MCRefNext
  FlagSet <- MCFlagSet
  InitFlags <- MCInitFlags
  RingLen = 4
  MaxWraps = 1
  NoRef = NoRef
SPECIFICATION Spec
INVARIANT TypeOK
INVARIANT MaxNextBounds
INVARIANT RingBuffersConsistent
PROPERTY AbsSpec

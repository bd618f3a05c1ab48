CONSTANTS
  Nexts = {0, 1, 2}
  MaxLen = 5
  NoRef = NoRef
SPECIFICATION Spec
INVARIANT TypeOK
INVARIANT OutputsInInputOrder
INVARIANT RecoveredRoundShowsPrefix
PROPERTY AbsSpec

CONSTANTS
  RENDER_BUF_CNT = 2
  MaxStarts = 2
SPECIFICATION Spec
INVARIANTS HoldsWhatItPointsTo FirstPlayInPlace NoThreadLeft
PROPERTY FinalizeReturns
CHECK_DEADLOCK FALSE

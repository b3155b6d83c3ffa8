SPECIFICATION BusyElementSpec
CONSTANTS
  NN_BUF_CNT = 2
  MapMayFail = TRUE
  Switching = FALSE
  Models = {face}
  NoModel = NoModel
  face = face
  InitMayFail = FALSE
  MaxSwitches = 0
  MaxSessions = 2
CHECK_DEADLOCK FALSE
INVARIANT UsesLoadedModel
INVARIANT ConvertsIntoMemory
PROPERTY NoBufferFreedInUse
PROPERTY InfersOnConvertedFrame
PROPERTY StopCompletes
PROPERTY ResultsReachOverlay
PROPERTY RingSpec

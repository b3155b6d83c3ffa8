SPECIFICATION ElementSpec
CONSTANTS
  NN_BUF_CNT = 2
  MapMayFail = TRUE
  Switching = TRUE
  Models = {face,yolo}
  NoModel = NoModel
  face = face
  yolo = yolo
  InitMayFail = TRUE
  MaxSwitches = 1
  MaxSessions = 1
CHECK_DEADLOCK FALSE
INVARIANT NothingLeftAfterClose
SYMMETRY ModelSymmetry

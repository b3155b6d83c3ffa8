SPECIFICATION LockFairSpec
CONSTANTS
  NN_BUF_CNT = 2
  MapMayFail = TRUE
  Switching = TRUE
  Models = {face,yolo}
  NoModel = NoModel
  face = face
  yolo = yolo
  InitMayFail = FALSE
  MaxSwitches = 1
  MaxSessions = 1
CHECK_DEADLOCK FALSE
PROPERTY SwitchTakesEffect

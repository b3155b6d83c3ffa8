SPECIFICATION Spec
CONSTANTS
  Nets <- MCNets
  FaceInputs <- MCFaceInputs
  YoloInputs <- MCYoloInputs
  num_class = 2
  Numbers = {1, 2}
  MAX_DETECT_NUM = 230
  MAX_FACE_DETECT_NUM = 100
  MaxCalls = 2
INVARIANTS RoomForEveryBox LeavesKernel ReportedOnce CutAtTheNumber
CHECK_DEADLOCK FALSE

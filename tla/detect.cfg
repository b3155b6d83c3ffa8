SPECIFICATION Spec
CONSTANTS
  DETECT_NUM = 1
  MAX_DETECT_NUM = 3
  MaxFailures = 2
  MaxFrames = 2
  MaxSettings = 2
INVARIANTS
  OutputsSetBeforeInference
  AgreeOnTheNumber
  OnlyFailuresLeak
\* The element or the sample ends.
CHECK_DEADLOCK FALSE

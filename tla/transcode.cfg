SPECIFICATION FairSpec
CONSTANTS
  Frames = 5
  Latency = 1
  QueueMax = 1
  SourceMax = 1
  FromRate = 2
  ToRate = 1
  RoundedUp = FALSE
  MayFail = TRUE
INVARIANTS
  NoUseAfterFree
  VideoIsComplete
PROPERTY
  Finishes
\* The demo ends.
CHECK_DEADLOCK FALSE

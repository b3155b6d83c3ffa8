SPECIFICATION BusySpec
CONSTANTS
  NN_BUF_CNT = 3
  MapMayFail = TRUE
  Switching = TRUE
INVARIANT NoSharedBuffer
INVARIANT FillsAnUnpublishedBuffer
PROPERTY NeverPublishesBufferInUse
PROPERTY NNKeepsRunning

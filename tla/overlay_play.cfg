SPECIFICATION ChattySpec
CONSTANTS
  RENDER_BUF_CNT = 2
  MaxResults = 2
  Toggles = TRUE
  MapMayFail = TRUE
INVARIANT ShowsNewest
INVARIANT ResultHasTimer
PROPERTY RingSpec
PROPERTY NeverStepsBack
PROPERTY ClearsInTheEnd

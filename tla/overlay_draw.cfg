CONSTANTS
  RENDER_BUF_CNT = 2
  Width = 9
  Height = 6
  UMod = 4096
  THICKNESS = 2
  Drawings <- MCDrawings
SPECIFICATION DrawSpec
INVARIANTS NoTearing ShowsItsResult FrameShowsOneResult EngineDrawsAlike

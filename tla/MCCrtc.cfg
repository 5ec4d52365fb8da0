SPECIFICATION FrameSpec
CONSTANTS
  Chars = 4
  Rows = 4
  Scans = 4
  Syncs = 3
  Highs = 2
  Lows = 4
  Pictures <- OnePicture
  Writes <- AllWrites
  MaxWrites = 3
INVARIANTS
  IInv
  PictureIsRowMajor
PROPERTIES
  VsyncLasts
  HsyncLasts
  FrameIsWhole
  FramesGoOn

SPECIFICATION FairSpec
CONSTANTS
  f1 = f1  f2 = f2  f3 = f3  f4 = f4  f5 = f5
  none = none  vga = vga  hd = hd  off = off
  Frames <- FourFrames
  NoFrame = none
  Sizes = {vga}
  DefaultSize = vga
  NoSize = off
  FramePoolSize = 3
  MaxFramesQueue = 1
  MaxStamp = 1
PROPERTIES
  StopReturns

\* A pool of 1 under a queue of 2: every other frame is allocated and freed.
\* One size: whether a frame is broken is open in MeasureFrame anyway.
SPECIFICATION FairSpec
CONSTANTS
  f1 = f1  f2 = f2  f3 = f3  f4 = f4  f5 = f5
  none = none  vga = vga  hd = hd  off = off
  Frames <- FourFrames
  NoFrame = none
  Sizes = {vga}
  DefaultSize = vga
  NoSize = off
  FramePoolSize = 1
  MaxFramesQueue = 2
  MaxStamp = 3
PROPERTIES
  ImplementsSession
  EveryQueuedFrameLeaves
  StartIsAnswered
  StopHangsOnlyInWait

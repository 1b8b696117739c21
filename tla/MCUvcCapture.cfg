\* Queue of 2, pool of 4 = queue + 2: the shape of UVCPreviewJni (8 and 4).
SPECIFICATION Spec
CONSTANTS
  f1 = f1  f2 = f2  f3 = f3  f4 = f4  f5 = f5
  none = none  vga = vga  hd = hd  off = off
  Frames <- FiveFrames
  NoFrame = none
  Sizes = {vga, hd}
  DefaultSize = vga
  NoSize = off
  FramePoolSize = 4
  MaxFramesQueue = 2
  MaxStamp = 5
SYMMETRY FrameSymmetry
INVARIANTS
  FramesOwnedOnce
  LiveFrameBound
  QuiescentWhenStopped
  OnlyFirstIsStale

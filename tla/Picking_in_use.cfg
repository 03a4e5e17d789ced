CONSTANTS
  BufferedImages = 2
  Size <- MCSize
  FirstSize <- MCFirstSize
  Position <- MCPosition
  Failures = {}
  MaxFrames = 5
SPECIFICATION Spec
INVARIANT
  NotInUse

CONSTANTS
  BufferedImages = 2
  Size <- MCSize
  FirstSize <- MCFirstSize
  Position <- MCPosition
  Failures = {"create", "map"}
  MaxFrames = 5
SPECIFICATION Spec
INVARIANTS
  TypeOK
  PickIsRecent
  DataComplete
  OnlyPreviousExposed

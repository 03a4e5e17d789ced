CONSTANTS
  RingSize = 3
  LayerCount = 2
  FirstSize <- MCFirstSize
  Size <- MCSize
  Free = Free
  Surfaces <- MCSurfaces
  ExtraImages = {1}
  Failures = {"swapchain", "images", "objects"}
  MaxCreations = 4
SPECIFICATION Spec
INVARIANTS
  TypeOK
  NothingLost
  RequestsAllowed
  CreatedFromCurrent

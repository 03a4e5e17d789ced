SPECIFICATION Spec
CONSTANTS
  BufferedImages = 2
  RingSize = 2
  Capabilities <- OneSurface
  Swapchain = {sc1, sc2, sc3}
  NoSwapchain = NoSwapchain
  Failures <- FailureKinds
  MaxFrames = 4
SYMMETRY Handles
CHECK_DEADLOCK FALSE
INVARIANTS
  BoundedLead
  UniformSkew
  CleanShutdown

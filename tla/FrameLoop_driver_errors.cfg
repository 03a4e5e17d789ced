SPECIFICATION Spec
CONSTANTS
  BufferedImages = 2
  RingSize = 3
  Capabilities <- AnySurface
  Swapchain = {sc1, sc2, sc3}
  NoSwapchain = NoSwapchain
  Failures <- AllButEnd
  MaxFrames = 4
SYMMETRY Handles
CHECK_DEADLOCK FALSE
INVARIANTS
  TypeOK
  GpuReadsItsOwnFrame
  SwapchainOutlivesFrames
PROPERTIES
  ImplementsDoubleBuffer

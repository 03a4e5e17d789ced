SPECIFICATION FairSpec
CONSTANTS
  BufferedImages = 2
  RingSize = 3
  Capabilities <- AnySurface
  Swapchain = {sc1, sc2, sc3}
  NoSwapchain = NoSwapchain
  Failures <- PresentOnly
  MaxFrames = 4
PROPERTIES
  FrameProgress
  QuitEndsProgram
  SlotsComeBack

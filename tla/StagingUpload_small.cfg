SPECIFICATION FairSpec
CONSTANTS
  helmet = helmet
  crate = crate
  BufferedImages = 2
  Model <- TwoModels
  Length <- TwoLengths
  Failures = {"model", "create", "map"}
  MaxFailures = 2
INVARIANTS
  TypeOK
  DrawnIsReady
  UploadedOnce
  BytesArrive
  SlotBufferLive
  SetsReferToTheirOwn
PROPERTIES
  UploadsArrive

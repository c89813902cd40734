SPECIFICATION Spec
CONSTANTS
  Ann = ann
  Quoted = quoted
  Users = {ann, quoted}
  BadUser = bad
  GarbledUser = garbled
  Escaped <- MCEscaped
  Forms <- MCForms
  Pictures <- MCPictures
  MaxUploads = 2
  MaxUploadBytes = 0
  MaxFileSize = 20
  Slack = 5
  MaxPixels = 20000
  IntMax = 536870911
  JPEGSide = 6553
  WebPSide = 1638
  CropSide = 10
  MaxResized = 1000000
  Side100 = 10
  Side300 = 30
  SizeParams = {"", "100x100", "5x5"}
  FormatParams = {"", "jpg", "webp", "gif"}
INVARIANTS
  TypeOK
  AcceptsExactly
  StoredWhole
  WorkerAgrees
  RightImage
  ServedIfPossible
  NotModifiedTrue
  MetadataTrue
  ThumbnailsAsNamed

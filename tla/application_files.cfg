CONSTANTS
  small1 = small1
  small2 = small2
  large = large
  Pictures <- AllPictures
  PixelBytes <- Sizes
  Slots = {1, 2}
  MaximumRetainedPixelBytes = 3
  MaximumPendingCommands = 2
  NoBuffer = none
  ScalingFactors <- TurboFactors
  MaximumCompressedFileSize = 10485760
  MaximumDimension = 8192
  MaximumPixelCount = 16777216
  MaximumDecodedPixelBytes = 33554432
  MinimumScalePercent = 13
  MaximumScalePercent = 100
  h1 = h1
  h2 = h2
  h3 = h3
  Hashes <- ThreeHashes
  FileBytes <- DownloadSizes
  NoHash = none
  MaximumFileSizeInBytes = 2
  MaximumStoredDownloadedFilesSizeInBytes = 3
  MaximumUnremovedBytes = 3
SYMMETRY SmallPictures
SPECIFICATION MCSpec
INVARIANTS
  ScreenPixelsAreBounded
  OldScreensAreReleased
  NoPictureTwice
  DecodedPictureFits
  NoFileIsUnaccounted
  DiskUsageIsBounded
PROPERTY
  AnswersAreVerified

CONSTANTS
  Directories <- SomeDirectories
  MaximumValue = 1023
  InputNumber <- Wiring
  RestValues = {500, 520}
  RawValues = {0, 500, 520, 1023}
  DeadZones <- SomeDeadZones
  Grips <- SomeGrips
  SampleRuns <- SomeRuns
  Configurations <- SomeConfigurations
  Packages <- SomePackages
  OtherMessages <- SomeMessages
  ThisDevice <- Device
  MaximumSourceSize = 524288
  MaximumPayload = 1000000
  MaximumMqttMessage = 1048576
  MaximumMetadataSize = 65536
  Overhead = 450
CHECK_DEADLOCK FALSE
SPECIFICATION MCSpec
INVARIANTS
  UsersFindTheirObjects
  ReceiverIsWholeOrGone
  OledIsNotLeftLit
  ActiveMonitorIsFound
  StatusIsLegible
  ReadingsFollowHand
  PackageIsUnderstood
PROPERTIES
  ShutdownEnds
